---- MODULE Spec2Model ----
(***************************************************************************)
(* Region-based Sendable checking (lib/SILOptimizer/Mandatory/             *)
(* SendNonSendable.cpp): the fixpoint solver over per-block entry/exit      *)
(* partitions, the diagnose replay, the RaceTracer and the                  *)
(* ConsumeRequireAccumulator.                                               *)
(*                                                                         *)
(* Blocks are numbered 1..n in function order, block 1 is the entry block. *)
(* Value IDs are 0-based as minted by lookupNodeID; the IDs of the         *)
(* non-Sendable arguments are 0..numArgs-1 (getArgIDs mints them first).   *)
(***************************************************************************)
EXTENDS Integers, Sequences, FiniteSets, TLC

\* ------------------------------------------------------------------ bounds
NumIDs == 2
MaxTotalOps == 3
MaxSolveSteps == 80
MaxAccRequires == 3
MaxAccDistance == 1
NumAlgebraIDs == 3
MaxAlgebraOps == 3

\* the function with two branches that meet: its arguments, and the ops of
\* the branch that has any
NumBranchIDs == 3
MaxBranchOps == 2

\* PartitionAnalysis::NUM_REQUIREMENTS_TO_DIAGNOSE
NUM_REQUIREMENTS_TO_DIAGNOSE == 5

IDs == 0 .. (NumIDs - 1)

\* ------------------------------------------------------------ small helpers
Min(S) == CHOOSE x \in S : \A y \in S : x <= y

RECURSIVE SetToSeq(_)
SetToSeq(S) == IF S = {} THEN <<>> ELSE <<Min(S)>> \o SetToSeq(S \ {Min(S)})

Range(s) == {s[i] : i \in 1 .. Len(s)}

\* ------------------------------------------------------------- Partition
\* A partition is the set of its regions plus the set of consumed IDs (the
\* union of the consumed regions).  The representation is canonical, so
\* Partition::equals is equality of the two fields.
EmptyPartition == [regs |-> {}, con |-> {}]

isTracked(P, v) == v \in UNION P.regs

RegionOf(P, v) == IF isTracked(P, v) THEN CHOOSE r \in P.regs : v \in r ELSE {}

isConsumed(P, v) == v \in P.con

getConsumedVals(P) == P.con

getNonConsumedRegions(P) == {r \in P.regs : r \cap P.con = {}}

singleRegion(ids) == IF ids = {} THEN EmptyPartition
                     ELSE [regs |-> {ids}, con |-> {}]

PartitionEquals(P, Q) == P.regs = Q.regs /\ P.con = Q.con

RemoveID(P, v) == [regs |-> {r \ {v} : r \in P.regs} \ {{}}, con |-> P.con \ {v}]

assignFresh(P, v) ==
    LET Q == RemoveID(P, v) IN [regs |-> Q.regs \cup {{v}}, con |-> Q.con]

assign(P, dst, src) ==
    IF ~isTracked(P, src) \/ dst \in RegionOf(P, src) THEN P
    ELSE LET Q == RemoveID(P, dst)
             r == RegionOf(Q, src)
         IN [regs |-> (Q.regs \ {r}) \cup {r \cup {dst}},
             con  |-> IF src \in Q.con THEN Q.con \cup {dst} ELSE Q.con]

merge(P, a, b) ==
    IF ~isTracked(P, a) \/ ~isTracked(P, b) \/ b \in RegionOf(P, a) THEN P
    ELSE LET ra == RegionOf(P, a)
             rb == RegionOf(P, b)
         IN [regs |-> (P.regs \ {ra, rb}) \cup {ra \cup rb},
             con  |-> IF a \in P.con \/ b \in P.con
                      THEN P.con \cup ra \cup rb ELSE P.con]

consume(P, v) == [regs |-> P.regs, con |-> P.con \cup RegionOf(P, v)]

RECURSIVE JoinClass(_, _)
JoinClass(R, S) ==
    LET T == S \cup UNION {r \in R : r \cap S # {}}
    IN IF T = S THEN S ELSE JoinClass(R, T)

join(P, Q) ==
    LET R    == P.regs \cup Q.regs
        regs == {JoinClass(R, {v}) : v \in UNION R}
    IN [regs |-> regs,
        con  |-> UNION {c \in regs : c \cap (P.con \cup Q.con) # {}}]

\* ------------------------------------------------------------ PartitionOp
OpShapes ==
    [kind : {"AssignFresh", "Consume", "Require"}, a : IDs, b : {0}]
    \cup {o \in [kind : {"Assign"}, a : IDs, b : IDs] : o.a # o.b}
    \cup {o \in [kind : {"Merge"}, a : IDs, b : IDs] : o.a < o.b}

\* the op at position i of block b: its shape tagged with its source
\* instruction <<b, i>> (every op is given an instruction of its own)
OpAt(o, b, i) == [kind |-> o[b][i].kind, a |-> o[b][i].a, b |-> o[b][i].b, inst |-> <<b, i>>]

\* Partition::apply(op), the callback-free form
apply(P, op) ==
    CASE op.kind = "AssignFresh" -> assignFresh(P, op.a)
      [] op.kind = "Assign"      -> assign(P, op.a, op.b)
      [] op.kind = "Merge"       -> merge(P, op.a, op.b)
      [] op.kind = "Consume"     -> consume(P, op.a)
      [] op.kind = "Require"     -> P

\* the ops applied from the last to the first
RECURSIVE applyAll_Reversed(_, _)
applyAll_Reversed(P, s) ==
    IF s = <<>> THEN P ELSE apply(applyAll_Reversed(P, Tail(s)), Head(s))

\* every op applied to the entry partition instead of the working one
applyAll_FromEntry(P, s) == IF s = <<>> THEN P ELSE apply(P, s[Len(s)])

\* the loop left before the last op
RECURSIVE applyAll_SkipLast(_, _)
applyAll_SkipLast(P, s) ==
    IF Len(s) <= 1 THEN P ELSE applyAll_SkipLast(apply(P, Head(s)), Tail(s))

RECURSIVE applyAll(_, _)
applyAll(P, s) == IF s = <<>> THEN P ELSE applyAll(apply(P, Head(s)), Tail(s))

OpUses(op) ==
    CASE op.kind = "AssignFresh" -> {}
      [] op.kind = "Assign"      -> {op.b}
      [] op.kind = "Merge"       -> {op.a, op.b}
      [] op.kind = "Consume"     -> {op.a}
      [] op.kind = "Require"     -> {op.a}

OpDefs(op) == IF op.kind \in {"AssignFresh", "Assign"} THEN {op.a} ELSE {}

\* ------------------------------------------------------------------ CFGs
\* The control-flow graphs analysed: successor sets per block (block 1 is
\* the entry block), and how many ops fewer than MaxTotalOps their programs
\* carry.
CFGs ==
    { [succ |-> << {} >>, less |-> 0],                      \* one block
      [succ |-> << {2, 3}, {3}, {} >>, less |-> 0],         \* branch and join
      [succ |-> << {2}, {1} >>, less |-> 1],                \* loop through the entry block
      [succ |-> << {1, 2}, {} >>, less |-> 1],              \* self loop on the entry block
      [succ |-> << {2}, {2, 3}, {} >>, less |-> 1],         \* self loop
      [succ |-> << {2}, {}, {2} >>, less |-> 1],            \* a predecessor that is never reached
      [succ |-> << {2, 3}, {4}, {4}, {} >>, less |-> 1],    \* diamond
      [succ |-> << {3, 4}, {1}, {1}, {2} >>, less |-> 2] }  \* two cycles through the entry block

BlocksOf(succ) == 1 .. Len(succ)

Preds(succ, b) == {p \in BlocksOf(succ) : b \in succ[p]}

\* ------------------------------------------------------------- programs
\* The ops of block b of a program given as a flat op sequence in function
\* order together with the (non-decreasing) block of every op.
BlockOps(flat, blk, b) ==
    LET first == 1 + Cardinality({i \in DOMAIN blk : blk[i] < b})
        last  == Cardinality({i \in DOMAIN blk : blk[i] <= b})
    IN SubSeq(flat, first, last)

RECURSIVE SeqDefs(_)
SeqDefs(s) == IF s = <<>> THEN {} ELSE OpDefs(Head(s)) \cup SeqDefs(Tail(s))

ArgIDs(k) == 0 .. (k - 1)

\* IDs that are tracked on every path to the entry of each block: one
\* round of the must-availability equations.
AvailStep(succ, o, k, A) ==
    [b \in BlocksOf(succ) |->
        LET ps  == Preds(succ, b)
            out == {A[p] \cup SeqDefs(o[p]) : p \in ps}
            all == {v \in IDs : \A s \in out : v \in s}
        IN IF b = 1 THEN (IF 1 \in ps THEN {} ELSE ArgIDs(k) \cap all)
           ELSE all]

RECURSIVE AvailFix(_, _, _, _)
AvailFix(succ, o, k, A) ==
    LET B == AvailStep(succ, o, k, A)
    IN IF B = A THEN A ELSE AvailFix(succ, o, k, B)

AvailIn(succ, o, k) ==
    AvailFix(succ, o, k, [b \in BlocksOf(succ) |-> IF b = 1 THEN ArgIDs(k) ELSE IDs])

\* Every ID an op reads has been introduced before the op (the asserts of
\* PartitionOpTranslator::Assign/Consume/Merge/Require).
SourcesTracked(succ, o, k) ==
    LET A == AvailIn(succ, o, k)
    IN \A b \in BlocksOf(succ) : \A i \in 1 .. Len(o[b]) :
          OpUses(o[b][i]) \subseteq A[b] \cup SeqDefs(SubSeq(o[b], 1, i - 1))

\* lookupNodeID mints IDs densely, the IDs of the arguments first
\* (getEntryPartition runs in the constructor).  The other IDs are names
\* only: of the programs that differ by a renaming of them, the one whose
\* IDs first occur in increasing order is kept.
FirstUse(flat, v) ==
    Min({i \in DOMAIN flat : v \in OpUses(flat[i]) \cup OpDefs(flat[i])} \cup {Len(flat) + 1})

DenseIDs(flat, k) ==
    \A w \in IDs : (w >= k /\ FirstUse(flat, w) <= Len(flat))
        => \A v \in k .. (w - 1) : FirstUse(flat, v) <= FirstUse(flat, w)

NonDecreasing(blk) == \A i \in DOMAIN blk, j \in DOMAIN blk : i < j => blk[i] <= blk[j]

\* the programs over one CFG: numArgs, a flat op sequence and its split
\* into blocks
WellFormed(sc, k, flat, blk) ==
    /\ DenseIDs(flat, k)
    /\ NonDecreasing(blk)
    /\ SourcesTracked(sc, [b \in BlocksOf(sc) |-> BlockOps(flat, blk, b)], k)

\* ------------------------------------------------- tracer, accumulator
NoOp == [kind |-> "None", a |-> 0, b |-> 0, inst |-> <<0, 0>>]

\* PartitionOp::operator<: by kind, then operands, then source instruction
KindRank(k) ==
    CASE k = "AssignFresh" -> 0 [] k = "Assign" -> 1 [] k = "Merge" -> 2
      [] k = "Consume" -> 3 [] k = "Require" -> 4 [] OTHER -> 5

OpLess(x, y) ==
    IF x.kind # y.kind THEN KindRank(x.kind) < KindRank(y.kind)
    ELSE IF x.a # y.a THEN x.a < y.a
    ELSE IF x.b # y.b THEN x.b < y.b
    ELSE IF x.inst[1] # y.inst[1] THEN x.inst[1] < y.inst[1]
    ELSE x.inst[2] < y.inst[2]

\* PartitionOpAtDistance::operator<
\* the comparison taken on the ops before the distances
AtDistanceLess_OpFirst(x, y) ==
    IF x.partitionOp # y.partitionOp THEN OpLess(x.partitionOp, y.partitionOp)
    ELSE x.distance < y.distance

AtDistanceLess(x, y) ==
    IF x.distance # y.distance THEN x.distance < y.distance
    ELSE OpLess(x.partitionOp, y.partitionOp)

\* iteration of a std::map keyed by PartitionOp: ascending key order
RECURSIVE MapOrder(_)
MapOrder(S) ==
    IF S = {} THEN <<>>
    ELSE LET m == CHOOSE x \in S : \A y \in S \ {x} : OpLess(x, y)
         IN <<m>> \o MapOrder(S \ {m})

\* iteration of a std::set<PartitionOpAtDistance>
RECURSIVE SetOrder(_)
SetOrder(S) ==
    IF S = {} THEN <<>>
    ELSE LET m == CHOOSE x \in S : \A y \in S \ {x} : AtDistanceLess(x, y)
         IN <<m>> \o SetOrder(S \ {m})

\* A ConsumedReason is the sequence of its (op, distance) entries in the
\* order they were added; iterating consumeOps visits them by ascending
\* distance, entries of one distance in the order they were added.
RECURSIVE ReasonIterFrom(_, _)
ReasonIterFrom(R, ds) ==
    IF ds = {} THEN <<>>
    ELSE LET d == Min(ds)
             AtD(e) == e.distance = d
         IN SelectSeq(R, AtD) \o ReasonIterFrom(R, ds \ {d})

ReasonIter(R) == ReasonIterFrom(R, {R[i].distance : i \in DOMAIN R})

\* ConsumedReason::isValid
isValid(R) == R # <<>>

\* ConsumedReason::containsOp
containsOp(R, op) == \E i \in DOMAIN R : R[i].op = op

\* ConsumedReason::addConsumeOp
addConsumeOp(R, op, distance) == Append(R, [op |-> op, distance |-> distance])

\* ConsumedReason::addOtherReasonAtDistance
RECURSIVE addEntries(_, _, _)
addEntries(R, es, distance) ==
    IF es = <<>> THEN R
    ELSE addEntries(addConsumeOp(R, Head(es).op, distance + Head(es).distance),
                    Tail(es), distance)

\* the join at the block entry counted as one step of distance
addOtherReasonAtDistance_PerJoin(R, other, distance) ==
    addEntries(R, ReasonIter(other), distance + 1)

addOtherReasonAtDistance(R, other, distance) == addEntries(R, ReasonIter(other), distance)

\* the assertion of addConsumeOp failed while R was built
HasDuplicateOp(R) == \E i, j \in DOMAIN R : i # j /\ R[i].op = R[j].op

\* ConsumeRequireAccumulator::accumulateConsumedReason: the new map
RECURSIVE accumulateEntries(_, _, _)
accumulateEntries(acc, requireOp, es) ==
    IF es = <<>> THEN acc
    ELSE LET c == Head(es).op
             e == [partitionOp |-> requireOp, distance |-> Head(es).distance]
             old == IF c \in DOMAIN acc THEN acc[c] ELSE {}
         IN accumulateEntries(
                [x \in DOMAIN acc \cup {c} |-> IF x = c THEN old \cup {e} ELSE acc[x]],
                requireOp, Tail(es))

accumulateConsumedReason(acc, requireOp, R) == accumulateEntries(acc, requireOp, ReasonIter(R))

\* the consume ops in the order they were first recorded
RECURSIVE firstRecorded(_, _)
firstRecorded(seen, es) ==
    IF es = <<>> THEN seen
    ELSE firstRecorded(IF Head(es).op \in Range(seen) THEN seen ELSE Append(seen, Head(es).op),
                       Tail(es))

\* the inner loop of forEachConsumeRequire: the requires processed
RECURSIVE processRequires(_, _)
processRequires(reqs, numRequiresToProcess) ==
    IF reqs = <<>> \/ numRequiresToProcess = 0 THEN <<>>
    ELSE <<Head(reqs).partitionOp>> \o processRequires(Tail(reqs), numRequiresToProcess - 1)

\* the map visited from its last key to its first
consumeOrder_Reversed(acc) ==
    LET s == MapOrder(DOMAIN acc) IN [i \in DOMAIN s |-> s[Len(s) + 1 - i]]

\* the order in which forEachConsumeRequire visits requirementsForConsumptions
consumeOrder(acc) == MapOrder(DOMAIN acc)

\* numProcessed taken to be the number of requires recorded
forEachConsumeRequire_NoMin(numRequiresPerConsume, consumeOp, requireOps) ==
    LET size == Cardinality(requireOps)
        shown == processRequires(SetOrder(requireOps), numRequiresPerConsume)
    IN <<[kind |-> "ConsumptionYieldsRace", op |-> consumeOp,
          shown |-> size, hidden |-> 0]>>
       \o [i \in DOMAIN shown |->
             [kind |-> "PossibleRacyAccessSite", op |-> shown[i], shown |-> 0, hidden |-> 0]]

\* One iteration of the outer loop of forEachConsumeRequire with diagnose's
\* callbacks: the diagnostics emitted for one consume.
forEachConsumeRequire(numRequiresPerConsume, consumeOp, requireOps) ==
    LET size == Cardinality(requireOps)
        numProcessed == IF size < numRequiresPerConsume THEN size ELSE numRequiresPerConsume
        shown == processRequires(SetOrder(requireOps), numRequiresPerConsume)
    IN <<[kind |-> "ConsumptionYieldsRace", op |-> consumeOp,
          shown |-> numProcessed, hidden |-> size - numProcessed]>>
       \o [i \in DOMAIN shown |->
             [kind |-> "PossibleRacyAccessSite", op |-> shown[i], shown |-> 0, hidden |-> 0]]

\* blockPartitionOps of a block: empty until ensureBlockPartitionOpsPopulated
blockPartitionOps(o, bs, b) == IF bs[b].populated THEN o[b] ELSE <<>>

\* the walk that keeps its first candidate whatever happens to the value
\* afterwards
RECURSIVE localWalk_KeepCandidate(_, _, _, _, _, _, _)
localWalk_KeepCandidate(o, blk, i, n, W, r, q) ==
    IF i > n \/ (q.target # NoOp /\ q.target = OpAt(o, blk, i)) THEN r
    ELSE LET op == OpAt(o, blk, i)
             W1 == apply(W, op)
             r1 == IF isConsumed(W1, q.val) /\ r.kind = "None"
                   THEN (IF op.kind = "Consume"
                         THEN [kind |-> "LocalConsumeInst", localInst |-> op]
                         ELSE [kind |-> "LocalNonConsumeInst", localInst |-> NoOp])
                   ELSE r
         IN localWalk_KeepCandidate(o, blk, i + 1, n, W1, r1, q)

\* RaceTracer::findLocalConsumedReason without its cache: walk the ops of
\* the block from position i
RECURSIVE localWalk(_, _, _, _, _, _, _)
localWalk(o, blk, i, n, W, r, q) ==
    \* q = [val, target]; r is the optional LocalConsumedReason
    IF i > n \/ (q.target # NoOp /\ q.target = OpAt(o, blk, i)) THEN r
    ELSE LET op == OpAt(o, blk, i)
             W1 == apply(W, op)
             r1 == IF isConsumed(W1, q.val) /\ r.kind = "None"
                   THEN (IF op.kind = "Consume"
                         THEN [kind |-> "LocalConsumeInst", localInst |-> op]
                         ELSE [kind |-> "LocalNonConsumeInst", localInst |-> NoOp])
                   ELSE r
             r2 == IF ~isConsumed(W1, q.val) /\ r1.kind # "None"
                   THEN [kind |-> "None", localInst |-> NoOp] ELSE r1
         IN localWalk(o, blk, i + 1, n, W1, r2, q)

\* the walk that does not stop at the target op
findLocalConsumedReason_PastTarget(o, bs, blk, val, target) ==
    LET entry == bs[blk].entryPartition
        W0 == IF isConsumed(entry, val) THEN assignFresh(entry, val) ELSE entry
        r == localWalk(o, blk, 1, Len(blockPartitionOps(o, bs, blk)), W0,
                       [kind |-> "None", localInst |-> NoOp],
                       [val |-> val, target |-> NoOp])
    IN IF r.kind # "None" THEN r
       ELSE IF isConsumed(entry, val) THEN [kind |-> "NonLocal", localInst |-> NoOp]
       ELSE [kind |-> "Unset", localInst |-> NoOp]

\* kind "Unset" is the failed assert(consumedReason)
findLocalConsumedReason(o, bs, blk, val, target) ==
    LET entry == bs[blk].entryPartition
        W0 == IF isConsumed(entry, val) THEN assignFresh(entry, val) ELSE entry
        r == localWalk(o, blk, 1, Len(blockPartitionOps(o, bs, blk)), W0,
                       [kind |-> "None", localInst |-> NoOp],
                       [val |-> val, target |-> target])
    IN IF r.kind # "None" THEN r
       ELSE IF isConsumed(entry, val) THEN [kind |-> "NonLocal", localInst |-> NoOp]
       ELSE [kind |-> "Unset", localInst |-> NoOp]

\* the BFS of findConsumedAtEntryReason over singleStepJoins: a value is
\* entered in distancesFromTarget when it is popped
RECURSIVE bfs(_, _, _)
bfs(queue, dist, joins) ==
    IF queue = <<>> THEN dist
    ELSE LET cur == Head(queue)[1]
             d == Head(queue)[2]
             dist1 == [x \in DOMAIN dist \cup {cur} |-> IF x = cur THEN d ELSE dist[x]]
             NotSeen(x) == x \notin DOMAIN dist1
             next == SelectSeq(SetToSeq(joins[cur]), NotSeen)
         IN bfs(Tail(queue) \o [i \in DOMAIN next |-> <<next[i], d + 1>>], dist1, joins)

RECURSIVE predWork(_, _, _)
predWork(vals, dist, inPred) ==
    IF vals = <<>> THEN <<>>
    ELSE LET v == Head(vals)
         IN [i \in DOMAIN inPred[v] |-> <<v, dist[v], inPred[v][i]>>]
            \o predWork(Tail(vals), dist, inPred)

\* The part of findConsumedAtEntryReason before its final loop: the calls
\* findAndAddConsumedReasons(predBlock, predVal, ., distance) the loop will
\* make, in order, as <<predVal, distance, predBlock>>.
entryWork(sc, bs, blk, val) ==
    LET entry == bs[blk].entryPartition
        preds == SetToSeq(Preds(sc, blk))
        tracked == UNION entry.regs
        consumedInSomePred ==
            [v \in tracked |->
                LET Consumes(p) == isTracked(entry, v)
                                   /\ v \in getConsumedVals(bs[p].exitPartition)
                IN SelectSeq(preds, Consumes)]
        singleStepJoins ==
            [f \in tracked |->
                {s \in tracked : /\ f # s /\ isTracked(entry, f) /\ isTracked(entry, s)
                             /\ \E p \in Preds(sc, blk) :
                                  \E r \in getNonConsumedRegions(bs[p].exitPartition) :
                                      f \in r /\ s \in r}]
        distancesFromTarget == bfs(<< <<val, 0>> >>, << >>, singleStepJoins)
    IN predWork(SetToSeq(DOMAIN distancesFromTarget), distancesFromTarget, consumedInSomePred)

\* ----------------------------------------------------------------- state
VARIABLES
    succ, ops, numArgs,     \* the function: CFG, per-block ops, number of non-Sendable arguments
    order,                  \* the order in which blockStates is iterated
    gate,                   \* what SendNonSendable::run finds: the function's declContext,
                            \* the feature DeferredSendableChecking, the protocol Sendable
    phase,                  \* "start", "solve", "diagnose", "trace", "emit", "done"
    blockStates,            \* the BlockPartitionState of every block
    anyNeedUpdate, cursor,  \* solve's loop flag and its position in the for loop
    replay,                 \* diagnose: position in blockStates, next op, workingPartition
    stack,                  \* the tracer's pending calls, innermost last
    consumedAtEntryReasons, \* RaceTracer's cache of entry reasons
    consumedAtExitReasons,  \* RaceTracer's cache of local reasons at block exit
    accumulator,            \* requirementsForConsumptions
    emitPos,                \* forEachConsumeRequire: number of consumes processed
    diags,                  \* the diagnostics emitted, in order, with the phase of each
    recorded,               \* history: the consume ops in the order they were first recorded
    started,                \* history: the (block, value) keys whose entry reason computation began
    asserts,                \* history: the assertions that failed
    operands, opSeq,        \* Partition operations on their own: the partitions and ops given
    outcome,                \* ... and what the operations returned
    function,               \* the translator on its own: the SIL function it is given
    translator              \* ... and the members of the PartitionOpTranslator

inputVars == <<succ, ops, numArgs, order>>
solveVars == <<blockStates, anyNeedUpdate, cursor>>
traceVars == <<stack, consumedAtEntryReasons, consumedAtExitReasons, started, asserts>>
accVars == <<accumulator, recorded>>
algebraVars == <<operands, opSeq, outcome>>
silVars == <<function, translator>>
vars == <<succ, ops, numArgs, order, gate, phase, blockStates, anyNeedUpdate, cursor,
          replay, stack, consumedAtEntryReasons, consumedAtExitReasons, accumulator,
          emitPos, diags, recorded, started, asserts, operands, opSeq, outcome,
          function, translator>>

Blocks == BlocksOf(succ)

Identity(n) == [i \in 1 .. n |-> i]

\* BlockPartitionState's member initialisers
NewBlockState ==
    [needsUpdate |-> FALSE, reached |-> FALSE, populated |-> FALSE,
     entryPartition |-> EmptyPartition, exitPartition |-> EmptyPartition]

InitFunction(shapes, less) ==
    \E sh \in shapes, k \in 0 .. NumIDs :
      \E t \in 0 .. (MaxTotalOps - sh.less - less) :
        \E flat \in [1 .. t -> OpShapes], blk \in [1 .. t -> BlocksOf(sh.succ)] :
          /\ WellFormed(sh.succ, k, flat, blk)
          /\ succ = sh.succ
          /\ numArgs = k
          /\ ops = [b \in BlocksOf(sh.succ) |-> BlockOps(flat, blk, b)]

\* the members of a PartitionAnalysis before its constructor has run
InitPass ==
    /\ blockStates = [b \in Blocks |-> NewBlockState]
    /\ anyNeedUpdate = FALSE
    /\ cursor = 1
    /\ replay = [pos |-> 1, idx |-> 1, workingPartition |-> EmptyPartition]
    /\ stack = <<>>
    /\ consumedAtEntryReasons = << >>
    /\ consumedAtExitReasons = << >>
    /\ accumulator = << >>
    /\ emitPos = 0
    /\ diags = <<>>
    /\ recorded = <<>>
    /\ started = <<>>
    /\ asserts = {}

\* the members of a PartitionOpTranslator before its constructor has run
NewTranslator ==
    [capturedUIValues |-> {}, nodeIDMap |-> {}, nextNodeID |-> 0, failed |-> FALSE,
     entryPartition |-> EmptyPartition, partitionOps |-> <<>>, nonConsumables |-> <<>>]

\* no SIL function is being translated
NoSIL ==
    /\ function = <<>>
    /\ translator = NewTranslator

InitAnalysis ==
    /\ InitPass
    /\ NoSIL
    /\ operands = <<>>
    /\ opSeq = <<>>
    /\ outcome = <<>>

\* what run may find: everything, or one of the three missing
Envs ==
    { [declContext |-> TRUE, feature |-> TRUE, protocol |-> TRUE],
      [declContext |-> FALSE, feature |-> TRUE, protocol |-> TRUE],
      [declContext |-> TRUE, feature |-> FALSE, protocol |-> TRUE],
      [declContext |-> TRUE, feature |-> TRUE, protocol |-> FALSE] }

InitRest ==
    /\ gate \in Envs
    /\ phase = "start"
    /\ InitAnalysis

Init ==
    /\ InitFunction(CFGs, 0)
    /\ order = Identity(Len(succ))
    /\ InitRest

\* translator.getEntryPartition()
getEntryPartition(k) == singleRegion(ArgIDs(k))

\* translator.getNonConsumables()
getNonConsumables(k) == IF k > 0 THEN {0} ELSE {}

\* run without the check of the feature
runsAnalysis_NoFeatureCheck(env) == env.declContext /\ env.protocol

\* the early returns of SendNonSendable::run: whether
\* PartitionAnalysis::performForFunction is reached
runsAnalysis(env) == env.declContext /\ env.feature /\ env.protocol

\* the PartitionAnalysis constructor
Construct(bs, k) ==
    [bs EXCEPT ![1].needsUpdate = TRUE, ![1].entryPartition = getEntryPartition(k)]

\* SendNonSendable::run up to and including the PartitionAnalysis
\* constructor and the first evaluation of solve's while condition
Run ==
    /\ phase = "start"
    /\ gate' = gate
    /\ IF runsAnalysis(gate)
       THEN /\ phase' = "solve"
            /\ blockStates' = Construct(blockStates, numArgs)
       ELSE /\ phase' = "done"
            /\ UNCHANGED blockStates
    /\ anyNeedUpdate' = FALSE
    /\ cursor' = 1
    /\ UNCHANGED <<inputVars, algebraVars, silVars, replay, traceVars, accVars, emitPos, diags>>

\* the entry partition taken from the last predecessor alone
JoinExits_LastOnly(ps, bs) == bs[ps[Len(ps)]].exitPartition

\* the last predecessor left out of the join
JoinExits_FirstOnly(ps, bs) == bs[ps[1]].exitPartition

\* the join of the exit partitions of the reached predecessors, in
\* predecessor order
RECURSIVE JoinExits(_, _)
JoinExits(ps, bs) ==
    IF Len(ps) = 1 THEN bs[ps[1]].exitPartition
    ELSE join(JoinExits(SubSeq(ps, 1, Len(ps) - 1), bs), bs[ps[Len(ps)]].exitPartition)

\* the join taken over every predecessor, reached or not
ReachedPreds_All(sc, bs, b) == Preds(sc, b)

ReachedPreds(sc, bs, b) == {p \in Preds(sc, b) : bs[p].reached}

\* BlockPartitionState::recomputeExitFromEntry: the new exit partition
recomputeExitFromEntry(o, b, entry) == applyAll(entry, o[b])

\* the loop body that flags the successors without setting anyNeedUpdate
solveBlock_Unreported(sc, o, bs, b) ==
    LET bs1 == [bs EXCEPT ![b].needsUpdate = FALSE, ![b].reached = TRUE]
        rp == ReachedPreds(sc, bs1, b)
        newEntry == IF rp = {} THEN bs[b].entryPartition
                    ELSE JoinExits(SetToSeq(rp), bs1)
        newExit == recomputeExitFromEntry(o, b, newEntry)
        exitUpdated == ~PartitionEquals(bs[b].exitPartition, newExit)
        bs2 == [bs1 EXCEPT ![b].populated = TRUE,
                           ![b].entryPartition = newEntry,
                           ![b].exitPartition = newExit]
    IN IF ~bs[b].needsUpdate THEN [bs |-> bs, flagged |-> FALSE]
       ELSE IF rp # {} /\ PartitionEquals(newEntry, bs[b].entryPartition)
       THEN [bs |-> bs1, flagged |-> FALSE]
       ELSE IF exitUpdated
       THEN [bs |-> [c \in DOMAIN bs |->
                        IF c \in sc[b] THEN [bs2[c] EXCEPT !.needsUpdate = TRUE] ELSE bs2[c]],
             flagged |-> FALSE]
       ELSE [bs |-> bs2, flagged |-> FALSE]

\* the loop body that flags the successors when the entry partition changed
solveBlock_FlagOnEntryChange(sc, o, bs, b) ==
    LET bs1 == [bs EXCEPT ![b].needsUpdate = FALSE, ![b].reached = TRUE]
        rp == ReachedPreds(sc, bs1, b)
        newEntry == IF rp = {} THEN bs[b].entryPartition
                    ELSE JoinExits(SetToSeq(rp), bs1)
        newExit == recomputeExitFromEntry(o, b, newEntry)
        exitUpdated == ~PartitionEquals(bs[b].entryPartition, newEntry)
        bs2 == [bs1 EXCEPT ![b].populated = TRUE,
                           ![b].entryPartition = newEntry,
                           ![b].exitPartition = newExit]
    IN IF ~bs[b].needsUpdate THEN [bs |-> bs, flagged |-> FALSE]
       ELSE IF rp # {} /\ PartitionEquals(newEntry, bs[b].entryPartition)
       THEN [bs |-> bs1, flagged |-> FALSE]
       ELSE IF exitUpdated
       THEN [bs |-> [c \in DOMAIN bs |->
                        IF c \in sc[b] THEN [bs2[c] EXCEPT !.needsUpdate = TRUE] ELSE bs2[c]],
             flagged |-> sc[b] # {}]
       ELSE [bs |-> bs2, flagged |-> FALSE]

\* the loop body taking the join over no predecessor to be the empty
\* partition
solveBlock_EntryFromJoin(sc, o, bs, b) ==
    LET bs1 == [bs EXCEPT ![b].needsUpdate = FALSE, ![b].reached = TRUE]
        rp == ReachedPreds(sc, bs1, b)
        newEntry == IF rp = {} THEN EmptyPartition
                    ELSE JoinExits(SetToSeq(rp), bs1)
        newExit == recomputeExitFromEntry(o, b, newEntry)
        exitUpdated == ~PartitionEquals(bs[b].exitPartition, newExit)
        bs2 == [bs1 EXCEPT ![b].populated = TRUE,
                           ![b].entryPartition = newEntry,
                           ![b].exitPartition = newExit]
    IN IF ~bs[b].needsUpdate THEN [bs |-> bs, flagged |-> FALSE]
       ELSE IF rp # {} /\ PartitionEquals(newEntry, bs[b].entryPartition)
       THEN [bs |-> bs1, flagged |-> FALSE]
       ELSE IF exitUpdated
       THEN [bs |-> [c \in DOMAIN bs |->
                        IF c \in sc[b] THEN [bs2[c] EXCEPT !.needsUpdate = TRUE] ELSE bs2[c]],
             flagged |-> sc[b] # {}]
       ELSE [bs |-> bs2, flagged |-> FALSE]

\* The body of the for loop of PartitionAnalysis::solve for block b: the new
\* block states and whether a successor was flagged.
solveBlock(sc, o, bs, b) ==
    LET bs1 == [bs EXCEPT ![b].needsUpdate = FALSE, ![b].reached = TRUE]
        rp == ReachedPreds(sc, bs1, b)
        newEntry == IF rp = {} THEN bs[b].entryPartition
                    ELSE JoinExits(SetToSeq(rp), bs1)
        newExit == recomputeExitFromEntry(o, b, newEntry)
        exitUpdated == ~PartitionEquals(bs[b].exitPartition, newExit)
        bs2 == [bs1 EXCEPT ![b].populated = TRUE,
                           ![b].entryPartition = newEntry,
                           ![b].exitPartition = newExit]
    IN IF ~bs[b].needsUpdate THEN [bs |-> bs, flagged |-> FALSE]
       ELSE IF rp # {} /\ PartitionEquals(newEntry, bs[b].entryPartition)
       THEN [bs |-> bs1, flagged |-> FALSE]
       ELSE IF exitUpdated
       THEN [bs |-> [c \in DOMAIN bs |->
                        IF c \in sc[b] THEN [bs2[c] EXCEPT !.needsUpdate = TRUE] ELSE bs2[c]],
             flagged |-> sc[b] # {}]
       ELSE [bs |-> bs2, flagged |-> FALSE]

\* one iteration of the for loop of PartitionAnalysis::solve
SolveBlock ==
    /\ phase = "solve"
    /\ cursor <= Len(order)
    /\ LET r == solveBlock(succ, ops, blockStates, order[cursor])
       IN /\ blockStates' = r.bs
          /\ anyNeedUpdate' = (anyNeedUpdate \/ r.flagged)
    /\ cursor' = cursor + 1
    /\ UNCHANGED <<inputVars, algebraVars, silVars, gate, phase, replay, traceVars, accVars, emitPos, diags>>

\* the end of one pass of the for loop: the while condition of solve, and
\* on exit the start of diagnose
SolvePassEnd ==
    /\ phase = "solve"
    /\ cursor > Len(order)
    /\ IF anyNeedUpdate
       THEN /\ anyNeedUpdate' = FALSE
            /\ cursor' = 1
            /\ phase' = phase
            /\ UNCHANGED replay
       ELSE /\ phase' = "diagnose"
            /\ replay' = [pos |-> 1, idx |-> 1,
                          workingPartition |-> blockStates[order[1]].entryPartition]
            /\ UNCHANGED <<anyNeedUpdate, cursor>>
    /\ UNCHANGED <<inputVars, algebraVars, silVars, gate, blockStates, traceVars, accVars, emitPos, diags>>

\* ---------------------------------------------------------------- diagnose
Diag(kind, op, shown, hidden, at) ==
    [kind |-> kind, op |-> op, shown |-> shown, hidden |-> hidden, at |-> at]

\* Partition::apply with callbacks, on a Consume: whether
\* handleConsumeNonConsumable is called
consumesNonConsumable(P, v, nonConsumables) ==
    \E n \in nonConsumables : n \in RegionOf(P, v)

\* Partition::apply with callbacks, on a Require: whether handleFailure is called
requireFails(P, v) == isConsumed(P, v)

\* a replay in which a Consume marks its operand only, not its region
replayStep_ConsumeOperandOnly(W, op) ==
    IF op.kind = "Consume" /\ isTracked(W, op.a)
    THEN [W EXCEPT !.con = @ \cup {op.a}]
    ELSE apply(W, op)

\* a replay in which a failing Require gives its value a fresh region
replayStep_ReviveOnFail(W, op) ==
    IF op.kind = "Require" /\ isConsumed(W, op.a) THEN assignFresh(W, op.a) ELSE apply(W, op)

\* a replay that applies only the ops its callbacks are about
replayStep_CallbackOpsOnly(W, op) ==
    IF op.kind \in {"Consume", "Require"} THEN apply(W, op) ELSE W

\* the body of the loop of diagnoseFailures: workingPartition.apply(op, ...)
replayStep(W, op) == apply(W, op)

\* the partition diagnoseFailures replays a block over
diagnoseStart(bs, b) == bs[b].entryPartition

\* the replay run in place, on the entry partition itself
stateAfterReplayStep_InPlace(st, W) == [st EXCEPT !.entryPartition = W]

\* diagnoseFailures replays over a copy of the entry partition: the block
\* state once the working partition has become W
stateAfterReplayStep(st, W) == st

\* the access diagnosed at its site as well
afterHandleFailure_AtSite(ds, op) ==
    Append(ds, Diag("PossibleRacyAccessSite", op, 0, 0, "diagnose"))

\* diagnose's handleFailure callback after it has called the tracer: the
\* diagnostics emitted so far
afterHandleFailure(ds, op) == ds

TopFrame(use, val) ==
    [blk |-> 0, val |-> val, target |-> use, reason |-> <<>>,
     work |-> << <<val, 0, use.inst[1]>> >>]

\* the callback that emits nothing
handleConsumeNonConsumable_Silent(ds, op, at) == ds

\* diagnose's handleConsumeNonConsumable: one arg_region_consumed at the op
handleConsumeNonConsumable(ds, op, at) ==
    Append(ds, Diag("ArgRegionConsumed", op, 0, 0, at))

\* one iteration of the loop of BlockPartitionState::diagnoseFailures
DiagnoseOp ==
    /\ phase = "diagnose"
    /\ replay.pos <= Len(order)
    /\ replay.idx <= Len(blockPartitionOps(ops, blockStates, order[replay.pos]))
    /\ LET b == order[replay.pos]
           op == OpAt(ops, b, replay.idx)
           W == replay.workingPartition
       IN /\ replay' = [replay EXCEPT !.idx = @ + 1, !.workingPartition = replayStep(W, op)]
          /\ IF op.kind = "Require" /\ requireFails(W, op.a)
             THEN \* raceTracer.traceUseOfConsumedValue(op, op.a)
                  /\ phase' = "trace"
                  /\ stack' = <<TopFrame(op, op.a)>>
                  /\ diags' = afterHandleFailure(diags, op)
             ELSE /\ phase' = phase
                  /\ stack' = stack
                  /\ diags' = IF op.kind = "Consume"
                                 /\ consumesNonConsumable(W, op.a, getNonConsumables(numArgs))
                              THEN handleConsumeNonConsumable(diags, op, phase)
                              ELSE diags
          /\ blockStates' = [blockStates EXCEPT ![b] = stateAfterReplayStep(@, replayStep(W, op))]
    /\ UNCHANGED <<inputVars, algebraVars, silVars, gate, anyNeedUpdate, cursor, consumedAtEntryReasons,
                   consumedAtExitReasons, started, asserts, accVars, emitPos>>

\* the end of diagnoseFailures for one block: the next block of the loop of
\* diagnose, or the call of forEachConsumeRequire
DiagnoseBlockEnd ==
    /\ phase = "diagnose"
    /\ replay.pos <= Len(order)
    /\ replay.idx > Len(blockPartitionOps(ops, blockStates, order[replay.pos]))
    /\ IF replay.pos < Len(order)
       THEN /\ replay' = [pos |-> replay.pos + 1, idx |-> 1,
                          workingPartition |-> diagnoseStart(blockStates, order[replay.pos + 1])]
            /\ phase' = phase
       ELSE /\ replay' = [replay EXCEPT !.pos = @ + 1]
            /\ phase' = "emit"
    /\ UNCHANGED <<inputVars, algebraVars, silVars, gate, solveVars, traceVars, accVars, emitPos, diags>>

\* ------------------------------------------------------------------ tracer
Key(blk, val) == <<blk, val>>

Cached(cache, k) == k \in DOMAIN cache

Store(cache, k, v) == [x \in DOMAIN cache \cup {k} |-> IF x = k THEN v ELSE cache[x]]

\* no dummy value entered
withSentinel_Absent(cache, k) == cache

\* findConsumedAtEntryReason entering the dummy value in its cache
withSentinel(cache, k) == Store(cache, k, <<>>)

\* findLocalConsumedReason with its cache of exit reasons
localReasonOf(f, item) ==
    IF f.target = NoOp /\ Cached(consumedAtExitReasons, Key(item[3], item[1]))
    THEN consumedAtExitReasons[Key(item[3], item[1])]
    ELSE findLocalConsumedReason(ops, blockStates, item[3], item[1], f.target)

exitReasonsAfter(f, item, local) ==
    IF f.target = NoOp THEN Store(consumedAtExitReasons, Key(item[3], item[1]), local)
    ELSE consumedAtExitReasons

\* the assertions of findAndAddConsumedReasons and findLocalConsumedReason
localAsserts(f, item, local) ==
    (IF isConsumed(blockStates[item[3]].exitPartition, item[1]) THEN {} ELSE {"exitConsumed"})
    \cup (IF local.kind = "Unset" THEN {"localReason"} ELSE {})

ReplaceTop(st, f) == [st EXCEPT ![Len(st)] = f]

\* findConsumedAtEntryReason and findAndAddConsumedReasons as the recursive
\* functions they are, over the function fn = [succ, ops, blockStates] and a
\* cache of entry reasons: the reason found and the cache afterwards.
\* addReasons is the final loop of findConsumedAtEntryReason over the calls
\* in work.
RECURSIVE findConsumedAtEntryReason(_, _, _, _), addReasons(_, _, _, _)
findConsumedAtEntryReason(fn, blk, val, cache) ==
    IF Cached(cache, Key(blk, val)) THEN [reason |-> cache[Key(blk, val)], cache |-> cache]
    ELSE LET r == addReasons(fn, entryWork(fn.succ, fn.blockStates, blk, val), <<>>,
                             withSentinel(cache, Key(blk, val)))
         IN [reason |-> r.reason, cache |-> Store(r.cache, Key(blk, val), r.reason)]

addReasons(fn, work, reason, cache) ==
    IF work = <<>> THEN [reason |-> reason, cache |-> cache]
    ELSE LET item == Head(work)
             local == findLocalConsumedReason(fn.ops, fn.blockStates, item[3], item[1], NoOp)
         IN CASE local.kind = "LocalConsumeInst" ->
                     addReasons(fn, Tail(work),
                                addConsumeOp(reason, local.localInst, item[2]), cache)
              [] local.kind = "NonLocal" ->
                     LET e == findConsumedAtEntryReason(fn, item[3], item[1], cache)
                     IN addReasons(fn, Tail(work),
                                   addOtherReasonAtDistance(reason, e.reason, item[2]), e.cache)
              [] OTHER -> addReasons(fn, Tail(work), reason, cache)

\* findAndAddConsumedReasons(predBlock, predVal, reason, distance) when it
\* makes no new entry-reason computation: a local consume, a local
\* non-consume, or a non-local reason that is already in the cache
TraceLocal ==
    /\ phase = "trace"
    /\ stack # <<>>
    /\ LET f == stack[Len(stack)]
       IN /\ f.work # <<>>
          /\ LET item == Head(f.work)
                 local == localReasonOf(f, item)
                 k == Key(item[3], item[1])
                 reason1 ==
                     CASE local.kind = "LocalConsumeInst" ->
                              addConsumeOp(f.reason, local.localInst, item[2])
                       [] local.kind = "NonLocal" ->
                              addOtherReasonAtDistance(f.reason, consumedAtEntryReasons[k], item[2])
                       [] OTHER -> f.reason
             IN /\ local.kind = "NonLocal" => Cached(consumedAtEntryReasons, k)
                /\ stack' = ReplaceTop(stack, [f EXCEPT !.work = Tail(@), !.reason = reason1])
                /\ consumedAtExitReasons' = exitReasonsAfter(f, item, local)
                /\ asserts' = asserts \cup localAsserts(f, item, local)
                                \cup (IF HasDuplicateOp(reason1) THEN {"containsOp"} ELSE {})
    /\ UNCHANGED <<inputVars, algebraVars, silVars, gate, phase, solveVars, replay, consumedAtEntryReasons,
                   started, accVars, emitPos, diags>>

\* findAndAddConsumedReasons reaching findConsumedAtEntryReason for a key
\* that is not in the cache: the sentinel is stored and the body begins
TraceCall ==
    /\ phase = "trace"
    /\ stack # <<>>
    /\ LET f == stack[Len(stack)]
       IN /\ f.work # <<>>
          /\ LET item == Head(f.work)
                 local == localReasonOf(f, item)
                 k == Key(item[3], item[1])
             IN /\ local.kind = "NonLocal"
                /\ ~Cached(consumedAtEntryReasons, k)
                /\ consumedAtEntryReasons' = withSentinel(consumedAtEntryReasons, k)
                /\ stack' = Append(stack,
                       [blk |-> item[3], val |-> item[1], target |-> NoOp, reason |-> <<>>,
                        work |-> entryWork(succ, blockStates, item[3], item[1])])
                /\ started' = Append(started, k)
                /\ consumedAtExitReasons' = exitReasonsAfter(f, item, local)
                /\ asserts' = asserts \cup localAsserts(f, item, local)
                     \cup (IF isConsumed(blockStates[item[3]].entryPartition, item[1])
                           THEN {} ELSE {"entryConsumed"})
    /\ UNCHANGED <<inputVars, algebraVars, silVars, gate, phase, solveVars, replay, accVars, emitPos, diags>>

\* the return of findConsumedAtEntryReason into findAndAddConsumedReasons,
\* or of findConsumedAtOpReason into traceUseOfConsumedValue
TraceReturn ==
    /\ phase = "trace"
    /\ stack # <<>>
    /\ LET f == stack[Len(stack)]
       IN /\ f.work = <<>>
          /\ IF Len(stack) = 1
             THEN /\ accumulator' = accumulateConsumedReason(accumulator, f.target, f.reason)
                  /\ recorded' = firstRecorded(recorded, ReasonIter(f.reason))
                  /\ stack' = <<>>
                  /\ phase' = "diagnose"
                  /\ UNCHANGED <<consumedAtEntryReasons, asserts>>
             ELSE LET parent == stack[Len(stack) - 1]
                      item == Head(parent.work)
                      reason1 == addOtherReasonAtDistance(parent.reason, f.reason, item[2])
                  IN /\ consumedAtEntryReasons' =
                            Store(consumedAtEntryReasons, Key(f.blk, f.val), f.reason)
                     /\ stack' = ReplaceTop(SubSeq(stack, 1, Len(stack) - 1),
                                    [parent EXCEPT !.work = Tail(@), !.reason = reason1])
                     /\ asserts' = asserts
                            \cup (IF HasDuplicateOp(reason1) THEN {"containsOp"} ELSE {})
                     /\ UNCHANGED <<accumulator, recorded, phase>>
    /\ UNCHANGED <<inputVars, algebraVars, silVars, gate, solveVars, replay, consumedAtExitReasons,
                   started, emitPos, diags>>

\* ---------------------------------------------------------------- emission
\* one iteration of the outer loop of forEachConsumeRequire
EmitConsume ==
    /\ phase = "emit"
    /\ emitPos < Len(consumeOrder(accumulator))
    /\ LET c == consumeOrder(accumulator)[emitPos + 1]
           ds == forEachConsumeRequire(NUM_REQUIREMENTS_TO_DIAGNOSE, c, accumulator[c])
       IN diags' = diags \o [i \in DOMAIN ds |->
                                Diag(ds[i].kind, ds[i].op, ds[i].shown, ds[i].hidden, phase)]
    /\ emitPos' = emitPos + 1
    /\ UNCHANGED <<inputVars, algebraVars, silVars, gate, phase, solveVars, replay, traceVars, accVars>>

\* the end of forEachConsumeRequire, of diagnose and of the pass
EmitDone ==
    /\ phase = "emit"
    /\ emitPos = Len(consumeOrder(accumulator))
    /\ phase' = "done"
    /\ UNCHANGED <<inputVars, algebraVars, silVars, gate, solveVars, replay, traceVars, accVars, emitPos, diags>>

Next ==
    \/ Run
    \/ SolveBlock
    \/ SolvePassEnd
    \/ DiagnoseOp
    \/ DiagnoseBlockEnd
    \/ TraceLocal
    \/ TraceCall
    \/ TraceReturn
    \/ EmitConsume
    \/ EmitDone

Spec == Init /\ [][Next]_vars

\* ------------------------------------------------------------- solve alone
\* performForFunction up to the return of solve
NextSolve ==
    \/ Run
    \/ SolveBlock
    \/ SolvePassEnd

\* the functions whose entry block has a predecessor
EntryCycleCFGs == {sh \in CFGs : Preds(sh.succ, 1) # {}}

InitEntryCycle ==
    /\ InitFunction(EntryCycleCFGs, 0)
    /\ order = Identity(Len(succ))
    /\ InitRest

\* solve is sequential code: whenever it has a next step it takes it
SpecSolveFair == InitEntryCycle /\ [][NextSolve]_vars /\ WF_vars(NextSolve)

\* every order in which blockStates may be iterated
Perms(n) == {f \in [1 .. n -> 1 .. n] : \A i, j \in 1 .. n : i # j => f[i] # f[j]}

\* the CFGs iterated in every order: those of CFGs and a loop whose last
\* block branches back to the entry block and to the second block
OrderCFGs == CFGs \cup { [succ |-> << {2}, {3}, {1, 2} >>, less |-> 0] }

InitOrder ==
    /\ InitFunction(OrderCFGs, 1)
    /\ order \in Perms(Len(succ))
    /\ InitRest

SpecOrder == InitOrder /\ [][NextSolve]_vars

\* solve run to its end over the order ord, in at most fuel steps
RECURSIVE solveRun(_, _, _, _, _, _, _)
solveRun(sc, o, ord, bs, any, cur, fuel) ==
    IF fuel = 0 THEN [done |-> FALSE, bs |-> bs]
    ELSE IF cur > Len(ord)
         THEN (IF any THEN solveRun(sc, o, ord, bs, FALSE, 1, fuel - 1)
               ELSE [done |-> TRUE, bs |-> bs])
         ELSE LET r == solveBlock(sc, o, bs, ord[cur])
              IN solveRun(sc, o, ord, r.bs, any \/ r.flagged, cur + 1, fuel - 1)

\* the result of solve when the blocks are iterated in function order
InFunctionOrder ==
    solveRun(succ, ops, Identity(Len(succ)),
             Construct([b \in Blocks |-> NewBlockState], numArgs), FALSE, 1, MaxSolveSteps)

SameParts(x, y) ==
    \A b \in Blocks : /\ PartitionEquals(x[b].entryPartition, y[b].entryPartition)
                      /\ PartitionEquals(x[b].exitPartition, y[b].exitPartition)

\* the flow equations at block b
FlowEq(b) ==
    /\ PartitionEquals(blockStates[b].exitPartition,
                       applyAll(blockStates[b].entryPartition, ops[b]))
    /\ LET rp == ReachedPreds(succ, blockStates, b)
       IN rp # {} => PartitionEquals(blockStates[b].entryPartition,
                                     JoinExits(SetToSeq(rp), blockStates))

SolveReturned == runsAnalysis(gate) /\ phase \notin {"start", "solve"}

\* ----------------------------------------------------- accumulator alone
\* A function of one block, two consumes followed by requires: its ops are
\* what the accumulator is fed with.
AccOps ==
    <<[kind |-> "Consume", a |-> 0, b |-> 0], [kind |-> "Consume", a |-> 1, b |-> 0]>>
        \o [i \in 1 .. MaxAccRequires |-> [kind |-> "Require", a |-> 0, b |-> 0]]

AccConsumes == {OpAt(ops, 1, i) : i \in 1 .. 2}

AccRequires == {OpAt(ops, 1, i) : i \in 3 .. Len(ops[1])}

\* the ConsumedReasons handed to accumulateConsumedReason: one or two
\* consumes, each at some distance
AccReasons ==
    LET Entries == [op : AccConsumes, distance : 0 .. MaxAccDistance]
    IN {<<e>> : e \in Entries}
       \cup {R \in Entries \X Entries : R[1].op # R[2].op}

InitAcc ==
    /\ succ = << {} >>
    /\ ops = <<AccOps>>
    /\ numArgs = 2
    /\ order = <<1>>
    /\ gate \in {env \in Envs : runsAnalysis(env)}
    /\ phase = "acc"
    /\ InitAnalysis

\* RaceTracer::traceUseOfConsumedValue with the reason R found for requireOp
Accumulate(requireOp, R) ==
    /\ phase = "acc"
    /\ accumulator' = accumulateConsumedReason(accumulator, requireOp, R)
    /\ recorded' = firstRecorded(recorded, ReasonIter(R))
    /\ UNCHANGED <<inputVars, algebraVars, silVars, gate, phase, solveVars, replay, traceVars, emitPos, diags>>

AccumulateAny == \E requireOp \in AccRequires, R \in AccReasons : Accumulate(requireOp, R)

\* diagnose reaching forEachConsumeRequire
AccEnd ==
    /\ phase = "acc"
    /\ phase' = "emit"
    /\ UNCHANGED <<inputVars, algebraVars, silVars, gate, solveVars, replay, traceVars, accVars, emitPos, diags>>

NextAcc ==
    \/ AccumulateAny
    \/ AccEnd
    \/ EmitConsume
    \/ EmitDone

SpecAcc == InitAcc /\ [][NextAcc]_vars

\* -------------------------------------------------- Partition on its own
\* join and apply exercised on partitions and op sequences drawn from all
\* the partitions over a few IDs, as the solver and the replay call them.
AlgebraIDs == 0 .. (NumAlgebraIDs - 1)

Disjoint(rs) == \A r \in rs, t \in rs : r # t => r \cap t = {}

\* every partition over AlgebraIDs: disjoint regions over some of the IDs,
\* any of the regions consumed
Partitions ==
    UNION { {[regs |-> rs, con |-> UNION c] : c \in SUBSET rs} :
            rs \in {x \in SUBSET (SUBSET AlgebraIDs \ {{}}) : Disjoint(x)} }

AlgebraOps ==
    {o \in [kind : {"AssignFresh", "Consume", "Require", "Assign", "Merge"},
            a : AlgebraIDs, b : AlgebraIDs] :
        /\ o.kind \in {"AssignFresh", "Consume", "Require"} => o.b = 0
        /\ o.kind \in {"Assign", "Merge"} => o.a # o.b}

\* the translator's asserts: every ID an op reads is tracked when the op is applied
RECURSIVE UsesTracked(_, _)
UsesTracked(P, s) ==
    IF Len(s) = 0 THEN TRUE
    ELSE /\ OpUses(Head(s)) \subseteq UNION P.regs
         /\ UsesTracked(apply(P, Head(s)), Tail(s))

InitAlgebra ==
    /\ succ = << {} >>
    /\ ops = << <<>> >>
    /\ numArgs = 0
    /\ order = <<1>>
    /\ gate \in {env \in Envs : runsAnalysis(env)}
    /\ InitPass
    /\ NoSIL
    /\ outcome = <<>>

InitJoin ==
    /\ InitAlgebra
    /\ phase = "join"
    /\ operands \in Partitions \X Partitions \X Partitions
    /\ opSeq = <<>>

\* blocks whose exit partitions are the operands
ExitsOf(parts) == [i \in DOMAIN parts |-> [exitPartition |-> parts[i]]]

\* the joins solve takes over predecessor lists of the operands
JoinOperands ==
    /\ phase = "join"
    /\ LET bs == ExitsOf(operands)
       IN outcome' = [pq   |-> JoinExits(<<1, 2>>, bs),
                      qp   |-> JoinExits(<<2, 1>>, bs),
                      pp   |-> JoinExits(<<1, 1>>, bs),
                      pq_r |-> JoinExits(<<1, 2, 3>>, bs),
                      p_qr |-> join(operands[1], JoinExits(<<2, 3>>, bs))]
    /\ phase' = "joined"
    /\ UNCHANGED <<inputVars, gate, solveVars, replay, traceVars, accVars, emitPos, diags,
                   operands, opSeq, silVars>>

SpecJoin == InitJoin /\ [][JoinOperands]_vars

InitReplay ==
    /\ InitAlgebra
    /\ phase = "replay"
    /\ \E P \in Partitions, n \in 0 .. MaxAlgebraOps :
         \E s \in [1 .. n -> AlgebraOps] :
            /\ UsesTracked(P, s)
            /\ operands = <<P>>
            /\ opSeq = s

\* recomputeExitFromEntry over one more op of opSeq: outcome[n] is the
\* partition after the first n ops
ReplayNext ==
    /\ phase = "replay"
    /\ Len(outcome) < Len(opSeq)
    /\ outcome' = Append(outcome, applyAll(operands[1], SubSeq(opSeq, 1, Len(outcome) + 1)))
    /\ UNCHANGED <<inputVars, gate, phase, solveVars, replay, traceVars, accVars, emitPos,
                   diags, operands, opSeq, silVars>>

SpecReplay == InitReplay /\ [][ReplayNext]_vars

\* ------------------------------------------- findLocalConsumedReason alone
\* One block with any entry partition over IDs and any ops, and one
\* query the tracer can make of it: findConsumedAtOpReason's, for a Require
\* of the block that fails in the replay (target given), or
\* findAndAddConsumedReasons' for a value consumed at the block's exit.
InitLocal ==
    /\ succ = << {} >>
    /\ numArgs = 0
    /\ order = <<1>>
    /\ gate \in {env \in Envs : runsAnalysis(env)}
    /\ phase = "local"
    /\ NoSIL
    /\ operands = <<>> /\ opSeq = <<>> /\ outcome = <<>>
    /\ anyNeedUpdate = FALSE
    /\ cursor = 1
    /\ replay = [pos |-> 1, idx |-> 1, workingPartition |-> EmptyPartition]
    /\ consumedAtEntryReasons = << >>
    /\ consumedAtExitReasons = << >>
    /\ accumulator = << >>
    /\ emitPos = 0
    /\ diags = <<>>
    /\ recorded = <<>>
    /\ started = <<>>
    /\ asserts = {}
    /\ \E P \in {Q \in Partitions : UNION Q.regs \subseteq IDs}, n \in 0 .. MaxAlgebraOps :
         \E s \in [1 .. n -> {o \in AlgebraOps : {o.a, o.b} \subseteq IDs}],
            v \in IDs, t \in 0 .. n :
            /\ UsesTracked(P, s)
            /\ IF t = 0 THEN isConsumed(applyAll(P, s), v)
               ELSE /\ s[t].kind = "Require"
                    /\ s[t].a = v
                    /\ isConsumed(applyAll(P, SubSeq(s, 1, t - 1)), v)
            /\ ops = << s >>
            /\ blockStates = << [needsUpdate |-> FALSE, reached |-> TRUE, populated |-> TRUE,
                                 entryPartition |-> P, exitPartition |-> applyAll(P, s)] >>
            /\ stack = << [blk |-> 0, val |-> v,
                           target |-> IF t = 0 THEN NoOp ELSE OpAt(ops, 1, t),
                           reason |-> <<>>, work |-> << <<v, 0, 1>> >>] >>

\* the call of findLocalConsumedReason that findAndAddConsumedReasons makes
LocalReason ==
    /\ phase = "local"
    /\ LET f == stack[1]
       IN outcome' = << localReasonOf(f, Head(f.work)) >>
    /\ phase' = "localDone"
    /\ UNCHANGED <<inputVars, gate, solveVars, replay, traceVars, accVars, emitPos, diags,
                   operands, opSeq, silVars>>

SpecLocal == InitLocal /\ [][LocalReason]_vars

\* --------------------------------------------------------------- scenarios
\* The functions of the scenarios S1 to S6, translated: the IDs are the ones
\* lookupNodeID mints (the scenario's first value is ID 0), block 1 is the
\* entry block.
Fresh(v) == [kind |-> "AssignFresh", a |-> v, b |-> 0]

Consume(v) == [kind |-> "Consume", a |-> v, b |-> 0]

Require(v) == [kind |-> "Require", a |-> v, b |-> 0]

Merge(v, w) == [kind |-> "Merge", a |-> v, b |-> w]

\* sequential transfer
S1 == [succ |-> << {} >>, numArgs |-> 0,
       ops |-> << <<Fresh(0), Consume(0), Require(0)>> >>]

\* merge propagates consumption
S2 == [succ |-> << {} >>, numArgs |-> 0,
       ops |-> << <<Fresh(0), Fresh(1), Merge(0, 1), Consume(0), Require(1)>> >>]

\* reassign clears consumption
S3 == [succ |-> << {} >>, numArgs |-> 0,
       ops |-> << <<Fresh(0), Consume(0), Fresh(0), Require(0)>> >>]

\* join across branches
S4 == [succ |-> << {2, 3}, {4}, {4}, {} >>, numArgs |-> 0,
       ops |-> << <<Fresh(0)>>, <<Consume(0)>>, <<>>, <<Require(0)>> >>]

\* non-consumable argument
S5 == [succ |-> << {} >>, numArgs |-> 1,
       ops |-> << <<Consume(0)>> >>]

\* cycle through the entry block
S6 == [succ |-> << {2}, {1} >>, numArgs |-> 0,
       ops |-> << <<Fresh(0)>>, <<Consume(0), Require(0)>> >>]

Scenarios == {S1, S2, S3, S4, S5, S6}

IsScenario(sc) == succ = sc.succ /\ numArgs = sc.numArgs /\ ops = sc.ops

InitScenario ==
    /\ \E sc \in Scenarios : IsScenario(sc)
    /\ order = Identity(Len(succ))
    /\ InitRest

\* the pass runs to its end: no step of it waits on anything
SpecScenario == InitScenario /\ [][Next]_vars /\ WF_vars(Next)

\* ------------------------------------------------- a join of two branches
\* The diamond bb1 -> {bb2, bb3} -> bb4 of a function with NumBranchIDs
\* non-Sendable arguments: bb2 has up to MaxBranchOps ops over the
\* arguments' IDs, bb1 and bb3 have none, bb4 requires one of the IDs.
BranchIDs == 0 .. (NumBranchIDs - 1)

BranchOps ==
    [kind : {"AssignFresh", "Consume", "Require"}, a : BranchIDs, b : {0}]
    \cup {o \in [kind : {"Assign"}, a : BranchIDs, b : BranchIDs] : o.a # o.b}
    \cup {o \in [kind : {"Merge"}, a : BranchIDs, b : BranchIDs] : o.a < o.b}

InitBranches ==
    /\ succ = << {2, 3}, {4}, {4}, {} >>
    /\ numArgs = NumBranchIDs
    /\ \E n \in 0 .. MaxBranchOps :
         \E s \in [1 .. n -> BranchOps], v \in BranchIDs :
            ops = << <<>>, s, <<>>, <<Require(v)>> >>
    /\ order = Identity(Len(succ))
    /\ gate \in {env \in Envs : runsAnalysis(env)}
    /\ phase = "start"
    /\ InitAnalysis

SpecBranches == InitBranches /\ [][Next]_vars

\* --------------------------------------------------- a cycle off the entry
\* The functions over the CFG bb1 -> bb2 -> bb3 -> bb2: a cycle of two
\* blocks entered from the entry block.
CycleCFGs == { [succ |-> << {2}, {3}, {2} >>, less |-> 0] }

InitCycle ==
    /\ InitFunction(CycleCFGs, 0)
    /\ order = Identity(Len(succ))
    /\ InitRest

SpecCycle == InitCycle /\ [][Next]_vars

\* -------------------------------------------------------------- translator
\* The PartitionOpTranslator on its own, over SIL functions of one block.
\* A SIL value stands for what simplifyVal reduces it to, so two operands
\* that are projections of the same root are the same value here.
NumValues == 3
MaxParams == 2
MaxInsts == 2
MaxOperands == 3
MaxCalls == 1

Values == 0 .. (NumValues - 1)

\* the result of an apply that returns nothing to track: a Sendable value
\* (such as the empty tuple) that no instruction uses
NoResult == NumValues

\* the sequences over S of length lo .. hi
SeqsOf(S, lo, hi) == UNION {[1 .. n -> S] : n \in lo .. hi}

\* the instructions that can follow a prefix that defined the values d, the
\* next value an instruction can define being nx, a call being among them
\* when calls
InstsOver(d, nx, calls) ==
    LET new == IF nx < NumValues THEN {nx} ELSE {}
    IN (IF calls
        THEN [kind : {"apply"}, crossing : BOOLEAN, operands : SeqsOf(d, 0, MaxOperands),
                result : new \cup {NoResult}]
        ELSE {})
       \cup [kind : {"fresh", "other"}, result : new]
       \cup [kind : {"assign"}, result : new, operand : d]
       \cup {[kind |-> "assign", result |-> v, operand |-> v] : v \in d}
       \cup [kind : {"store"}, dst : d, src : d]
       \cup [kind : {"return"}, operand : d]
       \cup {[kind |-> "ignored"]}

\* whether instruction i defines a value of its own
DefinesValue(i) ==
    \/ i.kind \in {"fresh", "other"}
    \/ i.kind = "apply" /\ i.result # NoResult
    \/ i.kind = "assign" /\ i.result # i.operand

\* the instruction sequences of at most n instructions, at most c of them
\* calls, in which every operand is a parameter or the result of an earlier
\* instruction
RECURSIVE Bodies(_, _, _, _)
Bodies(n, d, nx, c) ==
    IF n = 0 THEN {<<>>}
    ELSE {<<>>} \cup
         UNION { {<<i>> \o rest :
                     rest \in Bodies(n - 1,
                                     IF DefinesValue(i) THEN d \cup {i.result} ELSE d,
                                     IF DefinesValue(i) THEN nx + 1 ELSE nx,
                                     IF i.kind = "apply" THEN c - 1 ELSE c)}
                 : i \in InstsOver(d, nx, c > 0) }

\* the values of a function: its parameters and its instructions' results
ValuesOf(numParams, insts) ==
    (0 .. (numParams - 1))
        \cup {insts[i].result : i \in {j \in 1 .. Len(insts) : DefinesValue(insts[j])}}

\* SILApplyCrossesIsolation decided wrongly: no call crosses
SILApplyCrossesIsolation_Never(inst) == FALSE

SILApplyCrossesIsolation(inst) == inst.crossing

isApplyInst(inst) == inst.kind = "apply"

\* isNonSendable(value): the oracle's answer for the simplified value
isNonSendable(f, v) == v # NoResult /\ f.nonSendable[v]

\* the set left empty
initCapturedUIValues_None(f) == {}

\* initCapturedUIValues: the non-Sendable, uniquely identified operands of
\* every apply of the function (nothing is captured while it runs, so
\* isUniquelyIdentified is what AccessStorage says)
initCapturedUIValues(f) ==
    {v \in Values :
        /\ f.nonSendable[v] /\ f.uniquelyIdentified[v]
        /\ \E i \in 1 .. Len(f.insts) :
              isApplyInst(f.insts[i]) /\ v \in Range(f.insts[i].operands)}

isUniquelyIdentified(f, t, v) == f.uniquelyIdentified[v] /\ v \notin t.capturedUIValues

nodeHasID(t, v) == \E e \in t.nodeIDMap : e[1] = v

\* lookupNodeID: the ID of v, a new one when it has none; id is the ID and
\* t the translator afterwards
lookupNodeID(t, v) ==
    IF nodeHasID(t, v)
    THEN [id |-> (CHOOSE e \in t.nodeIDMap : e[1] = v)[2], t |-> t]
    ELSE [id |-> t.nextNodeID,
          t |-> [t EXCEPT !.nodeIDMap = @ \cup {<<v, t.nextNodeID>>},
                          !.nextNodeID = @ + 1]]

\* assert(nodeHasID(v)) for every v of vs: a failure is recorded and the
\* translation goes on as it does in a build without assertions
assertNodeHasID(t, vs) == [t EXCEPT !.failed = @ \/ \E v \in vs : ~nodeHasID(t, v)]

\* the translation of nothing
NoOps(t) == [ops |-> <<>>, t |-> t]

\* AssignFresh(value)
emitAssignFresh(t, v) ==
    LET L == lookupNodeID(t, v) IN [ops |-> <<Fresh(L.id)>>, t |-> L.t]

\* the two lookups of `lookupNodeID(x) == lookupNodeID(y)`, whose order C++
\* leaves to the compiler: x first when xFirst
lookupBoth(t, x, y, xFirst) ==
    LET L1 == lookupNodeID(t, IF xFirst THEN x ELSE y)
        L2 == lookupNodeID(L1.t, IF xFirst THEN y ELSE x)
    IN [x |-> IF xFirst THEN L1.id ELSE L2.id,
        y |-> IF xFirst THEN L2.id ELSE L1.id,
        t |-> L2.t]

\* Assign(tgt, src)
emitAssign(t, tgt, src, xFirst) ==
    LET L == lookupBoth(assertNodeHasID(t, {src}), tgt, src, xFirst)
    IN [ops |-> IF L.x = L.y THEN <<>>
                ELSE << [kind |-> "Assign", a |-> L.x, b |-> L.y] >>,
        t |-> L.t]

\* Consume(value)
emitConsume(t, v) ==
    LET L == lookupNodeID(assertNodeHasID(t, {v}), v)
    IN [ops |-> <<Consume(L.id)>>, t |-> L.t]

\* Merge(fst, snd)
emitMerge(t, fst, snd, xFirst) ==
    LET L == lookupBoth(assertNodeHasID(t, {fst, snd}), fst, snd, xFirst)
    IN [ops |-> IF L.x = L.y THEN <<>> ELSE <<Merge(L.x, L.y)>>, t |-> L.t]

\* Require(value)
emitRequire(t, v) ==
    LET L == lookupNodeID(assertNodeHasID(t, {v}), v)
    IN [ops |-> <<Require(L.id)>>, t |-> L.t]

\* getArgIDs from argument i on: the IDs of the non-Sendable arguments in
\* order
RECURSIVE argIDsFrom(_, _, _)
argIDsFrom(f, t, i) ==
    IF i >= f.numParams THEN [ids |-> <<>>, t |-> t]
    ELSE IF f.nonSendable[i]
    THEN LET L == lookupNodeID(t, i)
             R == argIDsFrom(f, L.t, i + 1)
         IN [ids |-> <<L.id>> \o R.ids, t |-> R.t]
    ELSE argIDsFrom(f, t, i + 1)

\* getArgIDs: the arguments, then the self argument (the last argument)
\* once more when the function has one and it is non-Sendable
getArgIDs(f, t) ==
    LET A == argIDsFrom(f, t, 0)
    IN IF f.hasSelfParam /\ f.nonSendable[f.numParams - 1]
       THEN LET L == lookupNodeID(A.t, f.numParams - 1)
            IN [ids |-> Append(A.ids, L.id), t |-> L.t]
       ELSE A

\* getNonConsumables, from the vector getArgIDs returned
nonConsumablesOf(argIDs) == IF argIDs # <<>> THEN <<Head(argIDs)>> ELSE <<>>

\* a region for each argument
entryPartitionOf_Apart(argIDs) ==
    [regs |-> {{id} : id \in Range(argIDs)}, con |-> {}]

\* getEntryPartition, from the vector getArgIDs returned
entryPartitionOf(argIDs) == singleRegion(Range(argIDs))

\* the loop `for operand : nonSendableOperands: Consume(operand)`
RECURSIVE consumeAll(_, _)
consumeAll(t, vs) ==
    IF vs = <<>> THEN NoOps(t)
    ELSE LET h == emitConsume(t, Head(vs))
             r == consumeAll(h.t, Tail(vs))
         IN [ops |-> h.ops \o r.ops, t |-> r.t]

\* every operand merged with the first one
RECURSIVE mergeAll_WithFirst(_, _, _, _)
mergeAll_WithFirst(t, vs, i, xFirst) ==
    IF i > Len(vs) THEN NoOps(t)
    ELSE LET h == emitMerge(t, vs[1], vs[i], xFirst)
             r == mergeAll_WithFirst(h.t, vs, i + 1, xFirst)
         IN [ops |-> h.ops \o r.ops, t |-> r.t]

\* the loop `for i = 1 .. size - 1: Merge(at(i-1), at(i))`, from index i
\* (here 1-based: the operands vs[i-1] and vs[i]) on
RECURSIVE mergeAll(_, _, _, _)
mergeAll(t, vs, i, xFirst) ==
    IF i > Len(vs) THEN NoOps(t)
    ELSE LET h == emitMerge(t, vs[i - 1], vs[i], xFirst)
             r == mergeAll(h.t, vs, i + 1, xFirst)
         IN [ops |-> h.ops \o r.ops, t |-> r.t]

\* the non-Sendable operands of an apply, callee included
nonSendableOperands(f, inst) ==
    SelectSeq(inst.operands, LAMBDA v : isNonSendable(f, v))

translateSILApply(f, t, inst, xFirst) ==
    LET nso == nonSendableOperands(f, inst)
        nonSendableResult == isNonSendable(f, inst.result)
    IN IF SILApplyCrossesIsolation(inst)
       THEN LET c == consumeAll(t, nso)
                a == IF nonSendableResult THEN emitAssignFresh(c.t, inst.result)
                     ELSE NoOps(c.t)
            IN [ops |-> c.ops \o a.ops, t |-> a.t]
       ELSE IF nso = <<>>
       THEN IF nonSendableResult THEN emitAssignFresh(t, inst.result) ELSE NoOps(t)
       ELSE LET m == IF Len(nso) = 1 THEN emitRequire(t, nso[1])
                     ELSE mergeAll(t, nso, 2, xFirst)
                a == IF nonSendableResult
                     THEN emitAssign(m.t, inst.result, nso[1], xFirst)
                     ELSE NoOps(m.t)
            IN [ops |-> m.ops \o a.ops, t |-> a.t]

translateSILAssign(f, t, tgt, src, xFirst) ==
    IF ~isNonSendable(f, tgt) THEN NoOps(t)
    ELSE IF isNonSendable(f, src) THEN emitAssign(t, tgt, src, xFirst)
    ELSE emitAssignFresh(t, tgt)

translateSILAssignFresh(f, t, fresh) ==
    IF isNonSendable(f, fresh) THEN emitAssignFresh(t, fresh) ELSE NoOps(t)

translateSILMerge(f, t, fst, snd, xFirst) ==
    IF isNonSendable(f, fst) /\ isNonSendable(f, snd)
    THEN emitMerge(t, fst, snd, xFirst)
    ELSE NoOps(t)

translateSILStore(f, t, tgt, src, xFirst) ==
    IF isUniquelyIdentified(f, t, tgt)
    THEN translateSILAssign(f, t, tgt, src, xFirst)
    ELSE translateSILMerge(f, t, tgt, src, xFirst)

translateSILRequire(f, t, val) ==
    IF isNonSendable(f, val) THEN emitRequire(t, val) ELSE NoOps(t)

\* translateSILInstruction: "fresh" stands for the allocations and literals,
\* "assign" for the instructions translated as an assignment of their
\* operand to their result, "store" for the store-like ones, "ignored" for
\* the ignored ones and "other" for every instruction kind that is not
\* handled
translateSILInstruction(f, t, inst, xFirst) ==
    CASE inst.kind = "fresh"   -> translateSILAssignFresh(f, t, inst.result)
      [] inst.kind = "assign"  -> translateSILAssign(f, t, inst.result, inst.operand, xFirst)
      [] inst.kind = "store"   -> translateSILStore(f, t, inst.dst, inst.src, xFirst)
      [] inst.kind = "apply"   -> translateSILApply(f, t, inst, xFirst)
      [] inst.kind = "return"  -> translateSILRequire(f, t, inst.operand)
      [] inst.kind = "ignored" -> NoOps(t)
      [] inst.kind = "other"   -> NoOps(t)

\* translateSILBasicBlock from instruction i on: the ops of each
\* instruction, tagged with the instruction
RECURSIVE translateFrom(_, _, _, _)
translateFrom(f, t, i, xFirst) ==
    IF i > Len(f.insts) THEN NoOps(t)
    ELSE LET h == translateSILInstruction(f, t, f.insts[i], xFirst)
             r == translateFrom(f, h.t, i + 1, xFirst)
         IN [ops |-> [k \in 1 .. Len(h.ops) |->
                         [kind |-> h.ops[k].kind, a |-> h.ops[k].a, b |-> h.ops[k].b,
                          inst |-> i]] \o r.ops,
             t |-> r.t]

translateSILBasicBlock(f, t, xFirst) == translateFrom(f, t, 1, xFirst)

\* the SIL functions translated: up to MaxParams parameters, the last of
\* them self or not, up to MaxInsts instructions, and for every value what
\* the Sendable oracle and AccessStorage say of it (AccessStorage is asked
\* about non-Sendable values only, and its answer shows in the translation
\* only for the destination of a store: the other values are taken as not
\* uniquely identified)
InitTranslator ==
    /\ succ = << {} >>
    /\ ops = << <<>> >>
    /\ numArgs = 0
    /\ order = <<1>>
    /\ gate \in {env \in Envs : runsAnalysis(env)}
    /\ phase = "sil"
    /\ InitPass
    /\ operands = <<>>
    /\ opSeq = <<>>
    /\ outcome = <<>>
    /\ translator = NewTranslator
    /\ \E p \in 0 .. MaxParams :
         \E body \in Bodies(MaxInsts, 0 .. (p - 1), p, MaxCalls) :
           \E nsv \in SUBSET ValuesOf(p, body) :
             \E uiv \in SUBSET {v \in nsv : \E i \in 1 .. Len(body) :
                                            body[i].kind = "store" /\ body[i].dst = v} :
               \E self \in {b \in BOOLEAN : b => p > 0} :
                 function = [numParams |-> p, hasSelfParam |-> self, insts |-> body,
                             nonSendable |-> [v \in Values |-> v \in nsv],
                             uniquelyIdentified |-> [v \in Values |-> v \in uiv]]

\* PartitionOpTranslator's constructor
ConstructTranslator ==
    /\ phase = "sil"
    /\ translator' = [translator EXCEPT
                         !.capturedUIValues = initCapturedUIValues(function)]
    /\ phase' = "constructed"
    /\ UNCHANGED <<inputVars, gate, solveVars, replay, traceVars, accVars, emitPos, diags,
                   algebraVars, function>>

\* PartitionAnalysis's constructor, after the translator's:
\* translator.getEntryPartition()
SeedEntryPartition ==
    /\ phase = "constructed"
    /\ LET A == getArgIDs(function, translator)
       IN translator' = [A.t EXCEPT !.entryPartition = entryPartitionOf(A.ids)]
    /\ phase' = "seeded"
    /\ UNCHANGED <<inputVars, gate, solveVars, replay, traceVars, accVars, emitPos, diags,
                   algebraVars, function>>

\* ensureBlockPartitionOpsPopulated: translateSILBasicBlock, with either
\* order of evaluation of the operands of ==
TranslateBlock ==
    /\ phase = "seeded"
    /\ \E xFirst \in BOOLEAN :
          \E T \in {translateSILBasicBlock(function, translator, xFirst)} :
             translator' = [T.t EXCEPT !.partitionOps = T.ops]
    /\ phase' = "translated"
    /\ UNCHANGED <<inputVars, gate, solveVars, replay, traceVars, accVars, emitPos, diags,
                   algebraVars, function>>

\* diagnoseFailures: translator.getNonConsumables()
QueryNonConsumables ==
    /\ phase = "translated"
    /\ LET A == getArgIDs(function, translator)
       IN translator' = [A.t EXCEPT !.nonConsumables = nonConsumablesOf(A.ids)]
    /\ phase' = "queried"
    /\ UNCHANGED <<inputVars, gate, solveVars, replay, traceVars, accVars, emitPos, diags,
                   algebraVars, function>>

NextTranslator ==
    \/ ConstructTranslator
    \/ SeedEntryPartition
    \/ TranslateBlock
    \/ QueryNonConsumables

SpecTranslator == InitTranslator /\ [][NextTranslator]_vars

\* ------------------------------------------------------------------ claims
\* C1: on every finite CFG solve terminates: eventually a pass over the
\* blocks flags no successor and the loop is left.
C1_SolveTerminates == (phase = "solve") ~> (phase = "diagnose")

\* C2: when solve has terminated, every reached block satisfies the flow
\* equations: its exit partition is the replay of its ops over its entry
\* partition, and with a reached predecessor its entry partition is the join
\* of the exit partitions of its reached predecessors.
C2_FlowEquations ==
    SolveReturned => \A b \in Blocks : blockStates[b].reached => FlowEq(b)

\* C3: the entry and exit partitions of every block after solve are the
\* same for every order in which the blocks are iterated: any order gives
\* the partitions that function order gives.
C3_OrderIndependent ==
    (SolveReturned /\ InFunctionOrder.done) => SameParts(InFunctionOrder.bs, blockStates)

\* C4: diagnose (the replay with callbacks and every RaceTracer query)
\* leaves the fixpoint state as solve left it: no step after the return of
\* solve changes a block's entry partition, exit partition, ops, reached
\* or needsUpdate.
C4_DiagnoseFrame ==
    [][SolveReturned => (blockStates' = blockStates /\ ops' = ops)]_vars

C4_Witness ==
    /\ phase = "done"
    /\ started # <<>>
    /\ diags # <<>>
    /\ \E b \in Blocks : ~PartitionEquals(blockStates[b].entryPartition,
                                            blockStates[b].exitPartition)

\* C5: a Require that fails in the replay emits no diagnostic when it
\* fails or while it is traced, and every PossibleRacyAccessSite is emitted
\* by forEachConsumeRequire after all blocks were replayed, directly after
\* the ConsumptionYieldsRace of its consume or after another access site of
\* the same group.
RaceSiteGrouped(ds, i) ==
    /\ ds[i].at = "emit"
    /\ i > 1
    /\ ds[i - 1].kind \in {"ConsumptionYieldsRace", "PossibleRacyAccessSite"}
    /\ ds[i - 1].at = "emit"

C5_RequireRoutedThroughTracer ==
    [][/\ (phase = "trace" \/ phase' = "trace") => diags' = diags
       /\ \A i \in DOMAIN diags' :
             diags'[i].kind = "PossibleRacyAccessSite" => RaceSiteGrouped(diags', i)]_vars

C5_Witness ==
    /\ phase = "done"
    /\ \E i \in DOMAIN diags : diags[i].kind = "PossibleRacyAccessSite"
    /\ \E i \in DOMAIN diags : diags[i].kind = "ArgRegionConsumed"

\* the blocks reachable from block b along one or more CFG edges
RECURSIVE ReachFrom(_, _)
ReachFrom(sc, S) ==
    LET T == S \cup UNION {sc[x] : x \in S}
    IN IF T = S THEN S ELSE ReachFrom(sc, T)

ReachPlus(sc, b) == ReachFrom(sc, sc[b])

\* The concrete executions of the function: the (block, partition at block
\* entry, whether op c has executed) triples some path from the function
\* entry passes through.
RECURSIVE ConcreteStates(_, _)
ConcreteStates(S, c) ==
    LET T == S \cup UNION { { <<nb, applyAll(x[2], ops[x[1]]), x[3] \/ c.inst[1] = x[1]>> :
                                nb \in succ[x[1]] } : x \in S }
    IN IF T = S THEN S ELSE ConcreteStates(T, c)

\* some path from the function entry executes c, then reaches r with the
\* ID r requires consumed
ConcretePathConsumes(c, r) ==
    \E x \in ConcreteStates({<<1, getEntryPartition(numArgs), FALSE>>}, c) :
        /\ x[1] = r.inst[1]
        /\ x[3] \/ (c.inst[1] = r.inst[1] /\ c.inst[2] < r.inst[2])
        /\ isConsumed(applyAll(x[2], SubSeq(ops[x[1]], 1, r.inst[2] - 1)), r.a)

\* the (consume, require) pairs the accumulator holds
RecordedPairs ==
    UNION {{<<c, e.partitionOp>> : e \in accumulator[c]} : c \in DOMAIN accumulator}

\* c can execute before r: earlier in r's block, or in a block from which
\* r's block is reached along CFG edges
CanPrecede(c, r) ==
    \/ c.inst[1] = r.inst[1] /\ c.inst[2] < r.inst[2]
    \/ r.inst[1] \in ReachPlus(succ, c.inst[1])

\* the ID r requires is consumed at r when r's block is replayed over its
\* entry partition
ConsumedAtRequire(r) ==
    isConsumed(applyAll(blockStates[r.inst[1]].entryPartition,
                        SubSeq(ops[r.inst[1]], 1, r.inst[2] - 1)), r.a)

\* C6 as stated: for every recorded (Consume c, Require r) there is a CFG
\* path on which c executes before r and whose replay leaves the ID r
\* requires consumed at r.  Stated for the functions whose entry block has
\* no predecessor.
C6_ConcretePathReplay ==
    Preds(succ, 1) = {} =>
        \A pr \in RecordedPairs : ConcretePathConsumes(pr[1], pr[2])

\* C6 amended: for every recorded (Consume c, Require r), c is a Consume
\* that can execute before r along a CFG path, and the ID r requires is
\* consumed at r in the replay of r's block over its fixpoint entry
\* partition.
C6_AttributionSound ==
    \A pr \in RecordedPairs :
        /\ pr[1].kind = "Consume"
        /\ pr[2].kind = "Require"
        /\ CanPrecede(pr[1], pr[2])
        /\ ConsumedAtRequire(pr[2])

C6_Witness ==
    \E c \in DOMAIN accumulator : \E e \in accumulator[c] :
        /\ e.distance > 0
        /\ c.inst[1] # e.partitionOp.inst[1]
        /\ ~ConcretePathConsumes(c, e.partitionOp)

\* the keys whose entry reason findConsumedAtEntryReason can be asked for
Keys == Blocks \X IDs

\* the calls of findAndAddConsumedReasons the pending calls still have to make
RECURSIVE PendingWork(_)
PendingWork(st) == IF st = <<>> THEN 0 ELSE Len(Head(st).work) + PendingWork(Tail(st))

\* Every tracer step lowers this: a new entry reason computation uses up a
\* key and adds at most one call per (value, predecessor) pair.
TraceMeasure ==
    (Cardinality(Keys) - Len(started)) * (Cardinality(Keys) + 2)
        + PendingWork(stack) + Len(stack)

\* C7: every RaceTracer query terminates (each step of a query lowers
\* TraceMeasure), the computation for a (block, value) key is started at
\* most once, and the recursion is at most |blocks| x |IDs| deep.
C7_TracerTerminates ==
    [][/\ phase = "trace" => TraceMeasure' < TraceMeasure
       /\ \A i, j \in DOMAIN started' : i # j => started'[i] # started'[j]
       /\ Len(stack') <= Cardinality(Keys) + 1]_vars

\* a query that meets its own sentinel: the entry reason asked for is being
\* computed by a pending call
C7_Witness ==
    /\ phase = "trace"
    /\ Len(stack) >= 2
    /\ LET f == stack[Len(stack)]
       IN /\ f.work # <<>>
          /\ \E i \in 2 .. Len(stack) :
                /\ stack[i].blk = Head(f.work)[3]
                /\ stack[i].val = Head(f.work)[1]
          /\ localReasonOf(f, Head(f.work)).kind = "NonLocal"

\* C8: with the feature DeferredSendableChecking off, or without the
\* protocol Sendable, run constructs no analysis and emits no diagnostic.
C8_Gating ==
    (phase # "start" /\ (~gate.feature \/ ~gate.protocol)) =>
        /\ phase = "done"
        /\ blockStates = [b \in Blocks |-> NewBlockState]
        /\ diags = <<>>
        /\ accumulator = << >>

C8_Witness ==
    /\ phase = "done"
    /\ ~gate.feature
    /\ \E b \in Blocks : \E i \in DOMAIN ops[b] : ops[b][i].kind = "Require"
    /\ \E b \in Blocks : \E i \in DOMAIN ops[b] : ops[b][i].kind = "Consume"

\* the consumes reported, in the order of their ConsumptionYieldsRace
RECURSIVE ReportedConsumes(_)
ReportedConsumes(ds) ==
    IF ds = <<>> THEN <<>>
    ELSE (IF Head(ds).kind = "ConsumptionYieldsRace" THEN <<Head(ds).op>> ELSE <<>>)
         \o ReportedConsumes(Tail(ds))

\* the number of PossibleRacyAccessSite diagnostics directly after position i
RECURSIVE SitesAfter(_, _)
SitesAfter(ds, i) ==
    IF i + 1 > Len(ds) \/ ds[i + 1].kind # "PossibleRacyAccessSite" THEN 0
    ELSE 1 + SitesAfter(ds, i + 1)

\* C9: for each consume with n recorded requires, on_consume is called once
\* with shown = min(n, k) and hidden = n - shown, and on_require is then
\* called exactly shown times, never more than k = 5 times.
C9_ShownAndHidden ==
    /\ \A i \in DOMAIN diags :
          diags[i].kind = "ConsumptionYieldsRace" =>
              LET n == Cardinality(accumulator[diags[i].op])
                  k == NUM_REQUIREMENTS_TO_DIAGNOSE
              IN /\ diags[i].shown = (IF n < k THEN n ELSE k)
                 /\ diags[i].hidden = n - diags[i].shown
                 /\ SitesAfter(diags, i) = diags[i].shown
                 /\ SitesAfter(diags, i) <= k
    /\ \A c \in DOMAIN accumulator :
          Cardinality({i \in DOMAIN diags : diags[i].kind = "ConsumptionYieldsRace"
                                              /\ diags[i].op = c}) <= 1
    /\ phase = "done" =>
          \A c \in DOMAIN accumulator :
              \E i \in DOMAIN diags : diags[i].kind = "ConsumptionYieldsRace" /\ diags[i].op = c

C9_Witness ==
    /\ phase = "done"
    /\ \E i \in DOMAIN diags : diags[i].kind = "ConsumptionYieldsRace" /\ diags[i].hidden > 0
    /\ \E i \in DOMAIN diags : /\ diags[i].kind = "ConsumptionYieldsRace"
                               /\ diags[i].shown < NUM_REQUIREMENTS_TO_DIAGNOSE

\* C10 as stated: the consumes are reported in the order in which each was
\* first recorded by accumulateConsumedReason.
C10_InsertionOrder == phase = "done" => ReportedConsumes(diags) = recorded

\* C10 amended: the consumes recorded are each reported once, in ascending
\* order of PartitionOp's operator<, whatever the order they were recorded in.
C10_KeyOrder ==
    phase = "done" =>
        LET rc == ReportedConsumes(diags)
        IN /\ Range(rc) = Range(recorded)
           /\ Len(rc) = Len(recorded)
           /\ \A i, j \in DOMAIN rc : i < j => OpLess(rc[i], rc[j])

C10_Witness ==
    /\ phase = "done"
    /\ Len(recorded) = 2
    /\ ReportedConsumes(diags) # recorded

\* ------------------------------------------------------------------ C11
\* the number of requires recorded for consume c that come before entry e:
\* a smaller distance, or the same distance and a smaller op
RankOf(c, e) ==
    Cardinality({x \in accumulator[c] :
                    \/ x.distance < e.distance
                    \/ x.distance = e.distance /\ OpLess(x.partitionOp, e.partitionOp)})

\* C11: the requires reported for one consume are the recorded ones of
\* smallest distance, in ascending order of distance and, at one distance, of
\* op order: the j-th access site is the recorded require that j - 1 others
\* precede, so every require left out is at least as far as every one shown.
C11_AscendingDistance ==
    \A i \in DOMAIN diags :
        diags[i].kind = "ConsumptionYieldsRace" /\ i + diags[i].shown <= Len(diags) =>
            LET c == diags[i].op
                shownEntries == {e \in accumulator[c] : RankOf(c, e) < diags[i].shown}
            IN /\ \A j \in 1 .. diags[i].shown :
                      \E e \in accumulator[c] :
                          RankOf(c, e) = j - 1 /\ diags[i + j].op = e.partitionOp
               /\ \A e \in shownEntries, h \in accumulator[c] \ shownEntries :
                      e.distance <= h.distance

C11_Witness ==
    /\ phase = "done"
    /\ \E i \in DOMAIN diags :
          /\ diags[i].kind = "ConsumptionYieldsRace"
          /\ diags[i].hidden > 0
          /\ \E e, h \in accumulator[diags[i].op] :
                e.distance < h.distance /\ OpLess(h.partitionOp, e.partitionOp)

\* ------------------------------------------------------------------ C13
\* what the pass reports at its end: one ConsumptionYieldsRace at
\* consumeOp followed by one access site at requireOp, and nothing else
ReportsOneRace(consumeOp, requireOp) ==
    /\ Len(diags) = 2
    /\ diags[1].kind = "ConsumptionYieldsRace" /\ diags[1].op = consumeOp
    /\ diags[1].shown = 1 /\ diags[1].hidden = 0
    /\ diags[2].kind = "PossibleRacyAccessSite" /\ diags[2].op = requireOp

\* the accumulator holds requireOp for consumeOp at distance d and nothing else
RecordedOnceAt(consumeOp, requireOp, d) ==
    /\ DOMAIN accumulator = {consumeOp}
    /\ accumulator[consumeOp] = {[partitionOp |-> requireOp, distance |-> d]}

ScenarioDone(sc) == IsScenario(sc) /\ runsAnalysis(gate) /\ phase = "done"

\* C13 as stated: in S4 one ConsumptionYieldsRace is reported, at the
\* Consume of B1, listing the Require of B3, recorded at distance 1.
C13_DistanceOne ==
    ScenarioDone(S4) =>
        /\ ReportsOneRace(OpAt(ops, 2, 1), OpAt(ops, 4, 1))
        /\ RecordedOnceAt(OpAt(ops, 2, 1), OpAt(ops, 4, 1), 1)

\* C13, amended: in S4 one ConsumptionYieldsRace is reported, at the
\* Consume of B1, listing the Require of B3, recorded at distance 0: the
\* required value itself is consumed at the exit of B1, so no single-step
\* join lies between it and the consume.
C13_DistanceZero ==
    ScenarioDone(S4) =>
        /\ ReportsOneRace(OpAt(ops, 2, 1), OpAt(ops, 4, 1))
        /\ RecordedOnceAt(OpAt(ops, 2, 1), OpAt(ops, 4, 1), 0)

C13_Witness ==
    /\ ScenarioDone(S4)
    /\ <<4, 0>> \in DOMAIN consumedAtEntryReasons
    /\ Len(diags) > 0

\* ------------------------------------------------------------------ C14
\* C14: on S6 (B0 -> B1 -> B0; B0: AssignFresh(1); B1: Consume(1),
\* Require(1)) the solver terminates, the tracer terminates, and the pass
\* ends having reported exactly one ConsumptionYieldsRace, for the Consume of
\* B1, listing the Require of B1 once.
C14_CycleScenario ==
    (IsScenario(S6) /\ runsAnalysis(gate) /\ phase = "start")
        ~> (/\ phase = "done"
            /\ stack = <<>>
            /\ ReportsOneRace(OpAt(S6.ops, 2, 1), OpAt(S6.ops, 2, 2))
            /\ DOMAIN accumulator = {OpAt(S6.ops, 2, 1)}
            /\ Cardinality(accumulator[OpAt(S6.ops, 2, 1)]) = 1)

C14_Witness ==
    /\ ScenarioDone(S6)
    /\ \A b \in Blocks : blockStates[b].reached
    /\ isConsumed(blockStates[1].entryPartition, 0)
    /\ Len(diags) = 2

\* ------------------------------------------------------------------ C15
\* the number of ArgRegionConsumed diagnostics emitted at op
ArgDiagsAt(op) ==
    Cardinality({i \in DOMAIN diags : diags[i].kind = "ArgRegionConsumed" /\ diags[i].op = op})

\* the partition the replay of block b holds when it reaches position i
ReplayedTo(b, i) == applyAll(blockStates[b].entryPartition, SubSeq(ops[b], 1, i - 1))

ReplayEnded == runsAnalysis(gate) /\ phase \in {"emit", "done"}

\* C15: when the replay of diagnose has ended, every Consume(v) it applied
\* while the region of v held an ID of the non-consumables has exactly one
\* ArgRegionConsumed diagnostic at that op, and every other Consume has none.
C15_ArgRegionConsumed ==
    ReplayEnded =>
        \A b \in Blocks : \A i \in 1 .. Len(ops[b]) :
            ops[b][i].kind = "Consume" =>
                LET W == ReplayedTo(b, i)
                    applied == i <= Len(blockPartitionOps(ops, blockStates, b))
                    hit == applied /\ RegionOf(W, ops[b][i].a) \cap getNonConsumables(numArgs) # {}
                IN ArgDiagsAt(OpAt(ops, b, i)) = (IF hit THEN 1 ELSE 0)

\* both cases after one replay: a consume of the region of the first
\* argument, and a consume of a region without it
C15_Witness ==
    /\ ReplayEnded
    /\ \E b \in Blocks : \E i, j \in 1 .. Len(ops[b]) :
          /\ ops[b][i].kind = "Consume" /\ ArgDiagsAt(OpAt(ops, b, i)) = 1
          /\ ops[b][j].kind = "Consume" /\ ArgDiagsAt(OpAt(ops, b, j)) = 0
          /\ blockStates[b].populated

\* ------------------------------------------------------------------ C16
\* op, applied to W, consumes the region of v: v is consumed afterwards and
\* was not before
ConsumesRegionOf(W, op, v) == ~isConsumed(W, v) /\ isConsumed(apply(W, op), v)

\* position i of block b is a Require(v) that follows an AssignFresh(v) of
\* the block, with no op after that AssignFresh consuming the region of v
RequireAfterReassign(b, i) ==
    /\ ops[b][i].kind = "Require"
    /\ \E j \in 1 .. (i - 1) :
          /\ ops[b][j] = Fresh(ops[b][i].a)
          /\ \A m \in (j + 1) .. (i - 1) :
                ~ConsumesRegionOf(ReplayedTo(b, m), ops[b][m], ops[b][i].a)

\* the Require r has failed or has been reported
FailedOrReported(r) ==
    \/ stack # <<>> /\ stack[1].target = r
    \/ \E c \in DOMAIN accumulator : \E e \in accumulator[c] : e.partitionOp = r
    \/ \E i \in DOMAIN diags : diags[i].op = r

SolveLeft == runsAnalysis(gate) /\ phase \in {"diagnose", "trace", "emit", "done"}

\* C16: in the replay of a block, a Require(v) that follows an AssignFresh(v)
\* with no op in between consuming the region of v does not fail and gets no
\* diagnostic, whatever was consumed before the AssignFresh (in S3 that
\* Require is the only op a diagnostic could be about).
C16_ReassignClears ==
    SolveLeft =>
        \A b \in Blocks : \A i \in 1 .. Len(ops[b]) :
            RequireAfterReassign(b, i) => ~FailedOrReported(OpAt(ops, b, i))

\* a block whose replay is over, in which v was consumed, then assigned
\* fresh, then required
C16_Witness ==
    /\ ReplayEnded
    /\ \E b \in Blocks : \E i \in 1 .. Len(ops[b]) :
          /\ blockStates[b].populated
          /\ RequireAfterReassign(b, i)
          /\ \E j \in 1 .. (i - 1) :
                /\ ops[b][j] = Fresh(ops[b][i].a)
                /\ isConsumed(ReplayedTo(b, j), ops[b][i].a)

\* ------------------------------------------------------------------ C17
\* C17: join is commutative, associative and idempotent up to equals:
\* join(P,Q) = join(Q,P), join(P,join(Q,R)) = join(join(P,Q),R), join(P,P) = P.
C17_JoinLaws ==
    phase = "joined" =>
        /\ PartitionEquals(outcome.pq, outcome.qp)
        /\ PartitionEquals(outcome.p_qr, outcome.pq_r)
        /\ PartitionEquals(outcome.pp, operands[1])

\* three different operands, two of them with a consumed region, whose
\* joins are none of the operands
C17_Witness ==
    /\ phase = "joined"
    /\ Cardinality({operands[1], operands[2], operands[3]}) = 3
    /\ operands[1].con # {} /\ operands[2].con # {} /\ operands[3].con = {}
    /\ outcome.pq \notin {operands[1], operands[2]}
    /\ outcome.pq_r \notin {outcome.pq, operands[3]}

\* ------------------------------------------------------------------ C18
\* a and b share a region of P or of Q
Linked(P, Q, a, b) == \E r \in P.regs \cup Q.regs : a \in r /\ b \in r

\* a chain of IDs from a to b, each sharing a region of P or of Q with the next
Chained(P, Q, a, b) ==
    \E n \in 1 .. NumAlgebraIDs : \E path \in [1 .. n -> AlgebraIDs] :
        /\ path[1] = a /\ path[n] = b
        /\ \A i \in 1 .. (n - 1) : Linked(P, Q, path[i], path[i + 1])

\* C18: join(P,Q) is the least upper bound of P and Q: it tracks the IDs of
\* both; two IDs share a region of it iff a chain of co-regionality in P or
\* Q connects them; an ID is consumed in it iff its region in the join
\* overlaps a consumed region of P or of Q; so IDs co-regional in P or Q
\* stay co-regional and IDs consumed in P or Q stay consumed.
C18_JoinIsLub ==
    phase = "joined" =>
        LET P == operands[1]
            Q == operands[2]
            J == outcome.pq
            T == UNION (P.regs \cup Q.regs)
        IN /\ UNION J.regs = T
           /\ Disjoint(J.regs)
           /\ \A a \in T, b \in T : (b \in RegionOf(J, a)) <=> Chained(P, Q, a, b)
           /\ \A a \in T : isConsumed(J, a) <=> RegionOf(J, a) \cap (P.con \cup Q.con) # {}
           /\ \A a \in T, b \in T : Linked(P, Q, a, b) => b \in RegionOf(J, a)
           /\ P.con \cup Q.con \subseteq J.con

\* a join in which two IDs are linked only through a third, and an ID is
\* consumed that neither operand has consumed
C18_Witness ==
    /\ phase = "joined"
    /\ \E a \in AlgebraIDs, b \in AlgebraIDs :
          /\ b \in RegionOf(outcome.pq, a)
          /\ ~Linked(operands[1], operands[2], a, b)
    /\ outcome.pq.con \ (operands[1].con \cup operands[2].con) # {}

\* ------------------------------------------------------------------ C19
\* the partition of the straight-line replay after the first n ops
ReplayAt(n) == IF n = 0 THEN operands[1] ELSE outcome[n]

\* op assigns v anew: AssignFresh(v) or Assign(v, .)
Reassigns(op, v) == op.kind \in {"AssignFresh", "Assign"} /\ op.a = v

\* C19: in a straight-line replay an ID that is consumed, in the starting
\* partition or by a Consume of the sequence, is still consumed after any
\* further ops among which none is an AssignFresh or Assign of that ID:
\* Merge, Consume, Require and the reassignment of other IDs never
\* un-consume it.
C19_ConsumedStays ==
    phase = "replay" =>
        \A i \in 0 .. Len(outcome), j \in 0 .. Len(outcome), v \in AlgebraIDs :
            (/\ i < j
             /\ isConsumed(ReplayAt(i), v)
             /\ \A m \in (i + 1) .. j : ~Reassigns(opSeq[m], v))
                => isConsumed(ReplayAt(j), v)

\* a replay of MaxAlgebraOps ops in which a Consume of the sequence consumes
\* v, a later Merge or Assign of another ID leaves it consumed
C19_Witness ==
    /\ phase = "replay"
    /\ Len(outcome) = MaxAlgebraOps
    /\ \E v \in AlgebraIDs, n \in 1 .. (Len(outcome) - 1) :
          /\ ~isConsumed(ReplayAt(n - 1), v)
          /\ opSeq[n].kind = "Consume"
          /\ isConsumed(ReplayAt(n), v)
          /\ opSeq[n + 1].kind \in {"Merge", "Assign", "AssignFresh"}
          /\ ~Reassigns(opSeq[n + 1], v)
          /\ v \in OpUses(opSeq[n + 1]) \cup RegionOf(ReplayAt(n), opSeq[n + 1].a)
          /\ isConsumed(ReplayAt(n + 1), v)

\* ------------------------------------------------------------------ C20
\* C20: an Assign(dst, src) applied to W0 with src tracked gives W1 in which
\* dst is in the region of src and has left the region it was in; dst is
\* consumed iff src was; every other ID keeps its region up to dst and its
\* consumed status; and W1 = W0 when dst and src were co-regional already.
C20_Assign ==
    phase = "replay" =>
        \A n \in 1 .. Len(outcome) :
            opSeq[n].kind = "Assign" =>
                LET W0 == ReplayAt(n - 1)
                    W1 == ReplayAt(n)
                    dst == opSeq[n].a
                    src == opSeq[n].b
                    T0 == UNION W0.regs
                IN /\ isTracked(W0, src)
                   /\ UNION W1.regs = T0 \cup {dst}
                   /\ Disjoint(W1.regs)
                   /\ dst \in RegionOf(W1, src)
                   /\ RegionOf(W1, dst) = (RegionOf(W0, src) \cup {dst})
                   /\ isConsumed(W1, dst) <=> isConsumed(W0, src)
                   /\ \A x \in T0 \ {dst} :
                         /\ RegionOf(W1, x) \ {dst} = RegionOf(W0, x) \ {dst}
                         /\ isConsumed(W1, x) <=> isConsumed(W0, x)
                   /\ dst \in RegionOf(W0, src) => PartitionEquals(W1, W0)

\* an Assign that moves a consumed dst out of a region with other IDs into
\* the unconsumed region of src
C20_Witness ==
    /\ phase = "replay"
    /\ \E n \in 1 .. Len(outcome) :
          /\ opSeq[n].kind = "Assign"
          /\ isConsumed(ReplayAt(n - 1), opSeq[n].a)
          /\ RegionOf(ReplayAt(n - 1), opSeq[n].a) # {opSeq[n].a}
          /\ ~isConsumed(ReplayAt(n - 1), opSeq[n].b)
          /\ ~isConsumed(ReplayAt(n), opSeq[n].a)

\* ------------------------------------------------------------------ C21
\* C21: a Merge(a, b) applied to W0 gives W1 in which the regions of a and
\* b are one region; that region is consumed iff the region of a or the
\* region of b was consumed in W0; every other region and its consumed
\* status are unchanged; and W1 = W0 when a and b were co-regional already.
C21_Merge ==
    phase = "replay" =>
        \A n \in 1 .. Len(outcome) :
            opSeq[n].kind = "Merge" =>
                LET W0 == ReplayAt(n - 1)
                    W1 == ReplayAt(n)
                    a == opSeq[n].a
                    b == opSeq[n].b
                    merged == RegionOf(W0, a) \cup RegionOf(W0, b)
                IN /\ isTracked(W0, a) /\ isTracked(W0, b)
                   /\ RegionOf(W1, a) = merged /\ RegionOf(W1, b) = merged
                   /\ \A x \in merged :
                         isConsumed(W1, x) <=> (isConsumed(W0, a) \/ isConsumed(W0, b))
                   /\ W1.regs \ {merged} = W0.regs \ {RegionOf(W0, a), RegionOf(W0, b)}
                   /\ W1.con \ merged = W0.con \ merged
                   /\ b \in RegionOf(W0, a) => PartitionEquals(W1, W0)

\* a Merge of an unconsumed region of two IDs with a consumed region, with
\* a third region left alone
C21_Witness ==
    /\ phase = "replay"
    /\ \E n \in 1 .. Len(outcome) :
          /\ opSeq[n].kind = "Merge"
          /\ opSeq[n].a > opSeq[n].b
          /\ ~isConsumed(ReplayAt(n - 1), opSeq[n].a)
          /\ isConsumed(ReplayAt(n - 1), opSeq[n].b)
          /\ isConsumed(ReplayAt(n), opSeq[n].a)
          /\ Cardinality(ReplayAt(n).regs) = 2

\* ------------------------------------------------------------------ C22
\* the replay of diagnoseFailures is at op i of block b
ReplayingOp(b, i) ==
    /\ phase = "diagnose"
    /\ replay.pos <= Len(order)
    /\ order[replay.pos] = b
    /\ replay.idx = i
    /\ i <= Len(blockPartitionOps(ops, blockStates, b))

\* the replay of diagnoseFailures has applied every op of block b
ReplayedBlock(b) ==
    /\ phase = "diagnose"
    /\ replay.pos <= Len(order)
    /\ order[replay.pos] = b
    /\ replay.idx > Len(blockPartitionOps(ops, blockStates, b))

\* C22: a Require(v) replayed with callbacks leaves the working partition as
\* it was, whether or not it fails; the failure callback (the tracer) is
\* called exactly when v is consumed in the working partition; and the
\* replay with callbacks of a block whose exit the solver computed ends in
\* the partition the solver's callback-free replay produced from the same
\* entry.
C22_RequireFrame ==
    [][\A b \in Blocks :
          /\ \A i \in 1 .. Len(ops[b]) :
                (ReplayingOp(b, i) /\ ops[b][i].kind = "Require") =>
                    /\ replay'.workingPartition = replay.workingPartition
                    /\ (phase' = "trace") <=> isConsumed(replay.workingPartition, ops[b][i].a)
                    /\ (phase' = "trace") => stack' = <<TopFrame(OpAt(ops, b, i), ops[b][i].a)>>
          /\ (ReplayedBlock(b) /\ blockStates[b].populated) =>
                PartitionEquals(replay.workingPartition, blockStates[b].exitPartition)]_vars

\* the replay has just passed a failing Require, after a passing one, and
\* the working partition is still the one before it
C22_Witness ==
    \E b \in Blocks : \E i \in 2 .. Len(ops[b]) :
        /\ phase = "trace"
        /\ Len(stack) = 1
        /\ order[replay.pos] = b
        /\ replay.idx = i + 1
        /\ ops[b][i].kind = "Require"
        /\ isConsumed(replay.workingPartition, ops[b][i].a)
        /\ replay.workingPartition = ReplayedTo(b, i)
        /\ \E j \in 1 .. i - 1 :
              ops[b][j].kind = "Require" /\ ~isConsumed(ReplayedTo(b, j), ops[b][j].a)

\* ------------------------------------------------------------------ C23
\* C23: a Consume(v) replayed with callbacks emits arg_region_consumed (the
\* non-consumable callback) exactly when an ID of getNonConsumables is in
\* the region of v, and in both cases every ID of v's region is consumed
\* afterwards, the regions themselves and the other regions' consumed
\* status being as before.
C23_ConsumeWithDiagnostics ==
    [][\A b \in Blocks : \A i \in 1 .. Len(ops[b]) :
          (ReplayingOp(b, i) /\ ops[b][i].kind = "Consume") =>
              LET W0 == replay.workingPartition
                  W1 == replay'.workingPartition
                  v == ops[b][i].a
                  region == RegionOf(W0, v)
                  called == \E n \in getNonConsumables(numArgs) : n \in region
              IN /\ Len(diags') = Len(diags) + (IF called THEN 1 ELSE 0)
                 /\ called => /\ diags'[Len(diags')].kind = "ArgRegionConsumed"
                              /\ diags'[Len(diags')].op = OpAt(ops, b, i)
                 /\ W1.regs = W0.regs
                 /\ W1.con = W0.con \cup region
                 /\ phase' = "diagnose"]_vars

\* the replay has passed two Consumes of one block: one of a region without
\* the non-consumable ID, silently, and one of a region of two IDs that
\* holds it, with a diagnostic
C23_Witness ==
    \E b \in Blocks : \E i, j \in 1 .. Len(ops[b]) :
        /\ phase = "diagnose"
        /\ replay.pos <= Len(order)
        /\ order[replay.pos] = b
        /\ replay.idx > i /\ replay.idx > j
        /\ blockStates[b].populated
        /\ ops[b][i].kind = "Consume" /\ ops[b][j].kind = "Consume"
        /\ 0 \notin RegionOf(ReplayedTo(b, i), ops[b][i].a)
        /\ isTracked(ReplayedTo(b, i), ops[b][i].a)
        /\ 0 \in RegionOf(ReplayedTo(b, j), ops[b][j].a)
        /\ Cardinality(RegionOf(ReplayedTo(b, j), ops[b][j].a)) = 2
        /\ numArgs > 0
        /\ Len(diags) = 1
        /\ {0, 1} \subseteq replay.workingPartition.con

\* ------------------------------------------------------------------ C24
\* the block of the function has been translated
Translated == phase \in {"translated", "queried"}

\* the ops translated from instruction i, in order, without their tag
OpsOfInst(i) ==
    LET sel == SelectSeq(translator.partitionOps, LAMBDA o : o.inst = i)
    IN [k \in 1 .. Len(sel) |-> [kind |-> sel[k].kind, a |-> sel[k].a, b |-> sel[k].b]]

\* the ID the translator has given value v
IDOf(v) == (CHOOSE e \in translator.nodeIDMap : e[1] = v)[2]

\* the operands of instruction i that the oracle calls non-Sendable
NonSendableOperandsOf(i) ==
    SelectSeq(function.insts[i].operands, LAMBDA v : function.nonSendable[v])

\* C24: the translation of an isolation-crossing call is one Consume(o) for
\* each non-Sendable operand o (callee and arguments) in operand order,
\* followed by AssignFresh(r) exactly when the result r is non-Sendable, and
\* nothing else: no Require, Merge or Assign.
C24_CrossingCall ==
    Translated =>
        \A i \in 1 .. Len(function.insts) :
            LET inst == function.insts[i]
            IN (inst.kind = "apply" /\ inst.crossing) =>
                  LET nso == NonSendableOperandsOf(i)
                      nsr == isNonSendable(function, inst.result)
                      emitted == OpsOfInst(i)
                  IN /\ Len(emitted) = Len(nso) + (IF nsr THEN 1 ELSE 0)
                     /\ \A k \in 1 .. Len(nso) : emitted[k] = Consume(IDOf(nso[k]))
                     /\ nsr => emitted[Len(emitted)] = Fresh(IDOf(inst.result))

\* a translated crossing call of two different non-Sendable operands, with
\* a non-Sendable result
C24_Witness ==
    /\ Translated
    /\ \E i \in 1 .. Len(function.insts) :
          /\ function.insts[i].kind = "apply"
          /\ function.insts[i].crossing
          /\ Len(NonSendableOperandsOf(i)) = 2
          /\ NonSendableOperandsOf(i)[1] # NonSendableOperandsOf(i)[2]
          /\ isNonSendable(function, function.insts[i].result)
          /\ Len(OpsOfInst(i)) = 3

\* ------------------------------------------------------------------ C25
\* Merge(vs[k], vs[k+1]) for every k, over the IDs of the values vs
ChainOfMerges(vs) ==
    [k \in 1 .. (Len(vs) - 1) |-> Merge(IDOf(vs[k]), IDOf(vs[k + 1]))]

\* the translation of the non-crossing call at instruction i is `merges`
\* preceded by nothing and followed by the assignment of the result, by the
\* number of non-Sendable operands
NonCrossingCallIs(i, merges) ==
    LET inst == function.insts[i]
        nso == NonSendableOperandsOf(i)
        nsr == isNonSendable(function, inst.result)
        emitted == OpsOfInst(i)
    IN /\ Len(nso) = 0 => emitted = IF nsr THEN <<Fresh(IDOf(inst.result))>> ELSE <<>>
       /\ Len(nso) = 1 =>
             emitted = <<Require(IDOf(nso[1]))>>
                 \o (IF nsr THEN << [kind |-> "Assign", a |-> IDOf(inst.result),
                                     b |-> IDOf(nso[1])] >>
                     ELSE <<>>)
       /\ Len(nso) > 1 =>
             emitted = merges
                 \o (IF nsr THEN << [kind |-> "Assign", a |-> IDOf(inst.result),
                                     b |-> IDOf(nso[1])] >>
                     ELSE <<>>)
       /\ \A k \in 1 .. Len(emitted) : emitted[k].kind # "Consume"

\* C25 (as stated): the translation of a non-crossing call is, with no
\* non-Sendable operand, AssignFresh(r) iff the result r is non-Sendable;
\* with one, Require(ops[0]) and then Assign(r, ops[0]) if r is
\* non-Sendable; with n > 1, Merge(ops[i-1], ops[i]) for every i = 1..n-1
\* and then Assign(r, ops[0]) if r is non-Sendable; and never a Consume.
C25_NonCrossingCall ==
    Translated =>
        \A i \in 1 .. Len(function.insts) :
            (function.insts[i].kind = "apply" /\ ~function.insts[i].crossing) =>
                NonCrossingCallIs(i, ChainOfMerges(NonSendableOperandsOf(i)))

\* C25 (amended): as stated, except that with n > 1 non-Sendable operands
\* the Merge(ops[i-1], ops[i]) is emitted only for the i whose two operands
\* have different IDs: two operands that simplify to the same value give no
\* op at all.
C25_NonCrossingCallDistinct ==
    Translated =>
        \A i \in 1 .. Len(function.insts) :
            (function.insts[i].kind = "apply" /\ ~function.insts[i].crossing) =>
                NonCrossingCallIs(i,
                    SelectSeq(ChainOfMerges(NonSendableOperandsOf(i)),
                              LAMBDA m : m.a # m.b))

\* a translated non-crossing call of a non-Sendable value twice and then of
\* another one, with a non-Sendable result: one Merge and the Assign
C25_Witness ==
    /\ Translated
    /\ \E i \in 1 .. Len(function.insts) :
          /\ function.insts[i].kind = "apply"
          /\ ~function.insts[i].crossing
          /\ Len(NonSendableOperandsOf(i)) = 3
          /\ NonSendableOperandsOf(i)[1] = NonSendableOperandsOf(i)[2]
          /\ NonSendableOperandsOf(i)[2] # NonSendableOperandsOf(i)[3]
          /\ isNonSendable(function, function.insts[i].result)
          /\ Len(OpsOfInst(i)) = 2
          /\ OpsOfInst(i)[1].kind = "Merge"
          /\ OpsOfInst(i)[2].kind = "Assign"

\* ------------------------------------------------------------------ C26
\* value v is an operand of some apply of the function
CapturedByACall(v) ==
    \E j \in 1 .. Len(function.insts) :
        function.insts[j].kind = "apply" /\ v \in Range(function.insts[j].operands)

\* the translator's constructor has run
Constructed == phase \in {"constructed", "seeded", "translated", "queried"}

\* the captured set is the whole set: every non-Sendable uniquely
\* identified address that some call of the function has as an operand
CapturedSetComplete ==
    translator.capturedUIValues =
        {v \in Values : /\ function.nonSendable[v]
                        /\ function.uniquelyIdentified[v]
                        /\ CapturedByACall(v)}

\* the op a store of src to dst gives: Assign when dst is uniquely
\* identified and no call captures it, Merge otherwise
StoreOp(dst, src) ==
    IF function.uniquelyIdentified[dst] /\ ~CapturedByACall(dst)
    THEN [kind |-> "Assign", a |-> IDOf(dst), b |-> IDOf(src)]
    ELSE Merge(IDOf(dst), IDOf(src))

\* instruction i is a store with a non-Sendable destination and source
NonSendableStore(i) ==
    /\ function.insts[i].kind = "store"
    /\ function.nonSendable[function.insts[i].dst]
    /\ function.nonSendable[function.insts[i].src]

\* C26 (as stated): a store-like instruction with non-Sendable destination
\* and source is translated to Assign(dst, src) when the destination is a
\* uniquely identified address that no call captures and to Merge(dst, src)
\* otherwise; and the captured set is complete from the translator's
\* constructor on, before anything is translated.
C26_Store ==
    /\ Constructed => CapturedSetComplete
    /\ Translated =>
          \A i \in 1 .. Len(function.insts) :
              NonSendableStore(i) =>
                  OpsOfInst(i) = <<StoreOp(function.insts[i].dst, function.insts[i].src)>>

\* C26 (amended): as stated when destination and source have different
\* IDs; a store whose destination and source simplify to the same value is
\* translated to no op.
C26_StoreDistinct ==
    /\ Constructed => CapturedSetComplete
    /\ Translated =>
          \A i \in 1 .. Len(function.insts) :
              NonSendableStore(i) =>
                  OpsOfInst(i) =
                      IF function.insts[i].dst = function.insts[i].src THEN <<>>
                      ELSE <<StoreOp(function.insts[i].dst, function.insts[i].src)>>

\* a translated store to a uniquely identified address that a later call
\* has as an operand: a Merge
C26_Witness ==
    /\ Translated
    /\ Len(function.insts) = 2
    /\ NonSendableStore(1)
    /\ function.insts[1].dst # function.insts[1].src
    /\ function.uniquelyIdentified[function.insts[1].dst]
    /\ function.insts[2].kind = "apply"
    /\ function.insts[1].dst \in Range(function.insts[2].operands)
    /\ OpsOfInst(1) = <<Merge(IDOf(function.insts[1].dst), IDOf(function.insts[1].src))>>

\* ------------------------------------------------------------------ C27
\* the IDs the entry partition was seeded with
SeededIDs == UNION translator.entryPartition.regs

\* the IDs introduced before op k of the translation: the seeded ones and
\* the targets of the AssignFresh and Assign ops before k
IntroducedBefore(k) ==
    SeededIDs \cup UNION {OpDefs(translator.partitionOps[j]) : j \in 1 .. (k - 1)}

\* the partition after the first k ops of the translation, from the entry
\* partition
TranslationReplayedTo(k) ==
    applyAll(translator.entryPartition, SubSeq(translator.partitionOps, 1, k))

\* C27: every ID an emitted op uses as a source (the source of an Assign,
\* both operands of a Merge, the operand of a Consume or Require) has been
\* introduced before the op, by the seeding of the arguments or as the
\* target of an earlier AssignFresh or Assign; and the replay of the ops
\* never removes an ID from the partition.
C27_SourcesIntroduced ==
    Translated =>
        \A k \in 1 .. Len(translator.partitionOps) :
            /\ OpUses(translator.partitionOps[k]) \subseteq IntroducedBefore(k)
            /\ UNION TranslationReplayedTo(k - 1).regs
                   \subseteq UNION TranslationReplayedTo(k).regs

\* ------------------------------------------------------------------ C28
\* the non-Sendable formal parameters of the function, self included
NonSendableParams ==
    {v \in 0 .. (function.numParams - 1) : function.nonSendable[v]}

\* C28: the entry partition has the IDs of all non-Sendable formal
\* parameters, the receiver included, in one region that is not consumed,
\* and nothing else; getNonConsumables returns exactly one ID, an ID of that
\* region, when there is a non-Sendable parameter and nothing otherwise.
\* (These are getEntryPartition(k) and getNonConsumables(k) for the k
\* non-Sendable parameters, whose IDs are 0 .. k-1.)
C28_EntryPartition ==
    /\ phase \in {"seeded", "translated", "queried"} =>
          /\ \A v, w \in NonSendableParams :
                nodeHasID(translator, v) /\ (v # w => IDOf(v) # IDOf(w))
          /\ translator.entryPartition.regs =
                IF NonSendableParams = {} THEN {}
                ELSE {{IDOf(v) : v \in NonSendableParams}}
          /\ translator.entryPartition.con = {}
          /\ translator.entryPartition = getEntryPartition(Cardinality(NonSendableParams))
    /\ phase = "queried" =>
          /\ Len(translator.nonConsumables) = IF NonSendableParams = {} THEN 0 ELSE 1
          /\ \A k \in 1 .. Len(translator.nonConsumables) :
                translator.nonConsumables[k] \in {IDOf(v) : v \in NonSendableParams}
          /\ Range(translator.nonConsumables)
                = getNonConsumables(Cardinality(NonSendableParams))

\* a method of two non-Sendable parameters, the second being self, has
\* been translated and asked for its non-consumables
C28_Witness ==
    /\ phase = "queried"
    /\ function.numParams = 2
    /\ function.hasSelfParam
    /\ NonSendableParams = {0, 1}
    /\ translator.entryPartition = [regs |-> {{0, 1}}, con |-> {}]
    /\ translator.nonConsumables = <<0>>
    /\ Len(translator.partitionOps) > 0

\* ------------------------------------------------------------------ C29
\* C29: when solve returns no block has needsUpdate set, and no step of
\* solve (nor any later step) resets a block's reached flag once it is set.
C29_SolveLeavesNoUpdate ==
    [][/\ (phase = "solve" /\ phase' # "solve") =>
              \A b \in Blocks : ~blockStates'[b].needsUpdate
       /\ \A b \in Blocks : blockStates[b].reached => blockStates'[b].reached]_vars

\* solve has returned from a function of several blocks with a back edge,
\* with every block reached and none flagged
C29_Witness ==
    /\ SolveReturned
    /\ Len(succ) >= 3
    /\ \A b \in Blocks : blockStates[b].reached /\ ~blockStates[b].needsUpdate
    /\ \E b \in Blocks : b \in succ[b] \/ \E c \in succ[b] : c < b

\* ------------------------------------------------------------------ C30
\* solve is about to run its loop body on block b, which is flagged
SolvingFlagged(b) ==
    /\ phase = "solve"
    /\ cursor <= Len(order)
    /\ order[cursor] = b
    /\ blockStates[b].needsUpdate

\* the predecessors of b that are reached when the loop body looks at them
\* (b itself is marked reached before that)
ReachedPredsOf(b) == {p \in Preds(succ, b) : blockStates[p].reached \/ p = b}

\* the join of the exits of the reached predecessors of b
JoinedEntryOf(b) ==
    JoinExits(SetToSeq(ReachedPredsOf(b)), blockStates)

\* the step of solve on b is skipped: b has a reached predecessor and the
\* joined entry equals b's entry
SkipsBlock(b) ==
    /\ ReachedPredsOf(b) # {}
    /\ PartitionEquals(JoinedEntryOf(b), blockStates[b].entryPartition)

\* the exit that the step of solve on b recomputes
RecomputedExitOf(b) ==
    applyAll(IF ReachedPredsOf(b) # {} THEN JoinedEntryOf(b)
             ELSE blockStates[b].entryPartition,
             ops[b])

\* C30: in one step of solve on a flagged block B: if B has a reached
\* predecessor and the join of the reached predecessors' exits equals B's
\* entry, B's entry and exit stay as they are and no successor is flagged;
\* otherwise B's exit becomes the recomputed one and needsUpdate is set on
\* every successor exactly when the recomputed exit differs (semantic
\* equality) from the previous exit.
C30_SolverStep ==
    [][\A b \in Blocks :
          SolvingFlagged(b) =>
              LET flaggedNow == {c \in Blocks : blockStates'[c].needsUpdate}
                  flaggedBefore == {c \in Blocks : blockStates[c].needsUpdate} \ {b}
              IN IF SkipsBlock(b)
                 THEN /\ blockStates'[b].entryPartition = blockStates[b].entryPartition
                      /\ blockStates'[b].exitPartition = blockStates[b].exitPartition
                      /\ flaggedNow = flaggedBefore
                      /\ anyNeedUpdate' = anyNeedUpdate
                 ELSE /\ PartitionEquals(blockStates'[b].exitPartition, RecomputedExitOf(b))
                      /\ IF PartitionEquals(RecomputedExitOf(b), blockStates[b].exitPartition)
                         THEN flaggedNow = flaggedBefore
                         ELSE flaggedNow = flaggedBefore \cup succ[b]]_vars

\* a step of solve found the exit of a predecessor of b changed and flagged
\* b, which had been solved before and has successors; solve is back at b
\* and the join of its reached predecessors' exits equals its entry
C30_Witness ==
    /\ phase = "solve"
    /\ cursor <= Len(order)
    /\ \E b \in Blocks :
          /\ SolvingFlagged(b)
          /\ SkipsBlock(b)
          /\ blockStates[b].populated
          /\ ~PartitionEquals(blockStates[b].exitPartition, EmptyPartition)
          /\ succ[b] # {}


\* ------------------------------------------------------------------ C31
\* C31: if the entry block has no predecessors, solve never modifies its
\* entry partition, which stays the translator's entry partition from the
\* constructor to the end of the pass; and every block other than the entry
\* block that has not been reached has an empty entry and an empty exit
\* partition.
C31_EntryKept ==
    (runsAnalysis(gate) /\ phase # "start") =>
        /\ Preds(succ, 1) = {} =>
               blockStates[1].entryPartition = getEntryPartition(numArgs)
        /\ \A b \in Blocks \ {1} :
               ~blockStates[b].reached =>
                   /\ blockStates[b].entryPartition = EmptyPartition
                   /\ blockStates[b].exitPartition = EmptyPartition

\* solve has returned on a function with arguments whose entry block has no
\* predecessor and changes the partition, and one of whose blocks was never
\* reached although it has a successor that was
C31_Witness ==
    /\ SolveReturned
    /\ numArgs > 0
    /\ Preds(succ, 1) = {}
    /\ ~PartitionEquals(blockStates[1].exitPartition, blockStates[1].entryPartition)
    /\ \E b \in Blocks \ {1} :
          /\ ~blockStates[b].reached
          /\ \E c \in succ[b] : blockStates[c].reached /\ blockStates[c].populated


\* ------------------------------------------------------------------ C32
\* the query of SpecLocal
LocalQuery == stack[1]

\* the number of ops the walk replays: all of them, or those before the target
LocalStop ==
    IF LocalQuery.target = NoOp THEN Len(ops[1]) ELSE LocalQuery.target.inst[2] - 1

\* the partition after the first j ops, from the entry partition with the
\* value revived if it is consumed there
LocalAfter(j) ==
    LET entry == blockStates[1].entryPartition
        v == LocalQuery.val
    IN applyAll(IF isConsumed(entry, v) THEN apply(entry, [kind |-> "AssignFresh", a |-> v, b |-> 0])
                ELSE entry,
                SubSeq(ops[1], 1, j))

\* op j turns the value from non-consumed to consumed
LocalTurns(j) ==
    /\ isConsumed(LocalAfter(j), LocalQuery.val)
    /\ ~isConsumed(LocalAfter(j - 1), LocalQuery.val)

\* the position of the op that last turned the value consumed (0: none)
LocalLastTurn ==
    LET turns == {j \in 1 .. LocalStop : LocalTurns(j)}
    IN IF turns = {} THEN 0 ELSE CHOOSE j \in turns : \A m \in turns : m <= j

\* the value is consumed where the walk stops
LocalConsumedAtStop == isConsumed(LocalAfter(LocalStop), LocalQuery.val)

\* C32: findLocalConsumedReason(block, v, target) replays the block's ops
\* from the entry partition (v revived by AssignFresh(v) if consumed at
\* entry), stopping before target if given: it answers LocalConsume(op) iff
\* v is consumed at the stopping point and the op that last turned v from
\* non-consumed to consumed is the Consume op; LocalNonConsume iff that op
\* is of another kind; NonLocal iff v is not consumed at the stopping point
\* (an op that un-consumes v clears the candidate) and v is consumed at
\* block entry.
C32_LocalReason ==
    phase = "localDone" =>
        LET r == outcome[1]
            last == LocalLastTurn
        IN /\ r.kind = "LocalConsumeInst" <=>
                  LocalConsumedAtStop /\ ops[1][last].kind = "Consume"
           /\ r.kind = "LocalConsumeInst" => r.localInst = OpAt(ops, 1, last)
           /\ r.kind = "LocalNonConsumeInst" <=>
                  LocalConsumedAtStop /\ ops[1][last].kind # "Consume"
           /\ r.kind = "NonLocal" <=>
                  ~LocalConsumedAtStop /\ isConsumed(blockStates[1].entryPartition, LocalQuery.val)

\* the value is consumed at entry; in the walk a Consume turns it consumed,
\* a later op un-consumes it and a third op, not a Consume, turns it
\* consumed again: the answer is LocalNonConsume
C32_Witness ==
    /\ phase = "localDone"
    /\ isConsumed(blockStates[1].entryPartition, LocalQuery.val)
    /\ outcome[1].kind = "LocalNonConsumeInst"
    /\ \E j \in 1 .. (LocalLastTurn - 1) : LocalTurns(j) /\ ops[1][j].kind = "Consume"


\* ------------------------------------------------------------------ C33
\* two IDs tracked at the entry of blk share a non-consumed region of the
\* exit partition of a predecessor of blk: an edge of the single-step-join
\* graph
SingleStepJoined(blk, x, y) ==
    /\ x # y
    /\ isTracked(blockStates[blk].entryPartition, x)
    /\ isTracked(blockStates[blk].entryPartition, y)
    /\ \E p \in Preds(succ, blk) :
          \E r \in blockStates[p].exitPartition.regs :
              r \cap blockStates[p].exitPartition.con = {} /\ x \in r /\ y \in r

\* the BFS distance of u from the IDs of near in the single-step-join graph
\* of blk, near being at distance k (-1: u is not reachable)
RECURSIVE JoinDistance(_, _, _, _)
JoinDistance(blk, near, u, k) ==
    LET next == near \cup {y \in UNION blockStates[blk].entryPartition.regs :
                              \E x \in near : SingleStepJoined(blk, x, y)}
    IN IF u \in near THEN k
       ELSE IF next = near THEN -1
       ELSE JoinDistance(blk, next, u, k + 1)

\* C33: distances compose by addition, and the distance d(u) at which the
\* entry reason of (block, v) looks for the consume of an ID u in a
\* predecessor is the BFS distance of u from v in the single-step-join
\* graph: every call findAndAddConsumedReasons(pred, u, reason, d) that a
\* computation of an entry reason has still to make has d = d(u).
C33_BFSDistance ==
    \A i \in 2 .. Len(stack) :
        \A j \in DOMAIN stack[i].work :
            stack[i].work[j][2] =
                JoinDistance(stack[i].blk, {stack[i].val}, stack[i].work[j][1], 0)


\* ------------------------------------------------------------------ C34
\* the blocks that can be reached from the blocks of near along successor
\* edges, near included
RECURSIVE ReachableFrom(_)
ReachableFrom(near) ==
    LET next == near \cup UNION {succ[b] : b \in near}
    IN IF next = near THEN near ELSE ReachableFrom(next)

\* C34: after solve, every block that can be reached from the entry block
\* along successor edges has reached = true and has had its ops translated
\* (so that diagnose replays its real op sequence), also when the exit
\* partition of the entry block is empty.
C34_ReachableBlocksSolved ==
    SolveReturned =>
        \A b \in ReachableFrom({1}) :
            blockStates[b].reached /\ blockStates[b].populated


\* ------------------------------------------------------------------ C35
\* findConsumedAtOpReason is about to return to traceUseOfConsumedValue:
\* the search for the failing Require is complete
TopLevelTraced ==
    /\ phase = "trace"
    /\ Len(stack) = 1
    /\ stack[1].work = <<>>

\* C35: every Require that fails in the replay of diagnose is recorded in
\* the accumulator under at least one Consume op: the ConsumedReason that
\* findConsumedAtOpReason computes for it is valid (non-empty), also when
\* the value became consumed through a Merge or Assign with a consumed
\* region and when the Require lies on a cycle.
C35_ReasonValid ==
    TopLevelTraced => isValid(stack[1].reason)


\* ------------------------------------------------------------------ C36
\* C36: the assertion of ConsumedReason::addConsumeOp always holds: while
\* one ConsumedReason is built the same Consume op is never added twice,
\* also when the Consume reaches the Require through several predecessors
\* or several paths.
C36_NoConsumeAddedTwice == "containsOp" \notin asserts


\* ------------------------------------------------------------------ C37
\* C37: the assertions guarding the tracer always hold: whenever
\* findAndAddConsumedReasons(block, v, ...) is called, the first call for a
\* failing Require included, v is consumed in the exit partition of block;
\* whenever findConsumedAtEntryReason(block, v) is called, v is consumed in
\* the entry partition of block; and findLocalConsumedReason always finds a
\* reason.
C37_TracerAssertions ==
    asserts \cap {"exitConsumed", "entryConsumed", "localReason"} = {}


\* ------------------------------------------------------------------ C38
\* C38: a single representative suffices for the non-consumables: in every
\* partition reached during the replay of a block, every ID of a formal
\* argument that the partition tracks is in one region with
\* non_consumables[0] (ID 0), so that every Consume whose region holds an
\* argument calls handleConsumeNonConsumable.
C38_ArgumentsStayTogether ==
    (phase = "diagnose" /\ replay.pos <= Len(order)) =>
        \A x \in ArgIDs(numArgs) :
            isTracked(replay.workingPartition, x) =>
                0 \in RegionOf(replay.workingPartition, x)


\* ------------------------------------------------------------------ C39
\* the computation of the entry reason of key k has returned: k is in the
\* cache and no call for it is on the stack
Memoized(k) ==
    /\ Cached(consumedAtEntryReasons, k)
    /\ \A i \in 2 .. Len(stack) : Key(stack[i].blk, stack[i].val) # k

\* the entry reason of key k computed as a top-level query, with nothing in
\* the cache
TopLevelEntryReason(k) ==
    findConsumedAtEntryReason([succ |-> succ, ops |-> ops, blockStates |-> blockStates],
                              k[1], k[2], << >>).reason

\* C39: what the accumulator records does not depend on the order in which
\* the failing requires are traced: a memoized entry reason for (block, v)
\* is the same whether it was computed as a top-level query or as a nested
\* query made while another key's sentinel was in the cache.
C39_MemoizedAsTopLevel ==
    \A k \in DOMAIN consumedAtEntryReasons :
        Memoized(k) =>
            Range(consumedAtEntryReasons[k]) = Range(TopLevelEntryReason(k))

====
